---- MODULE Spec2Model ----
(***************************************************************************)
(* A model of go-simpler.org/queries: the driver interception layer        *)
(* (Interceptor, wrappedConnector, wrappedConn and its facet wrappers).    *)
(* The revision modelled is the one with the BeginTx callback and the      *)
(* driver.ErrSkip fallback (src/unnamed/part_009).                         *)
(***************************************************************************)
EXTENDS Integers, Sequences, FiniteSets, TLC

VARIABLES
    interceptor,  \* the Interceptor value: its Driver and its callback fields
    connector,    \* the wrappedConnector returned by OpenConnector, or NoConnector
    conns,        \* the connections the underlying connector has handed out
    wrapped,      \* the values wrappedConnector.Connect has returned
    closed,       \* indices of the wrapped connections that were closed
    pending,      \* the database/sql call that got ErrSkip and has yet to prepare
    last,         \* the record of the last operation: inputs, calls made, outcome
    probes,       \* the type assertions on connections the last operation made
    own,          \* per concurrent caller: the wrapped connection it obtained
    frames,       \* per concurrent caller: the call it has in flight
    builder,      \* a Builder: query text, arguments, counter, placeholder
    appended,     \* the Appendf calls made on the Builder so far
    queried,      \* what the last call of Query on the Builder came to
    rows,         \* the *sql.Rows of the call of Query or QueryRow in progress
    active,       \* the call of Query or QueryRow in progress: position, results
    collect,      \* the call of Collect in progress: sequence, position, result
    cache,        \* the cache of parseStruct: struct type -> column indexes
    parsers       \* per goroutine: its call of parseStruct

\* The variables of the concurrent callers, of the query builder, of the query
\* functions and of parseStruct.
callerVars == <<own, frames>>
builderVars == <<builder, appended, queried>>
queryVars == <<rows, active, collect>>
parseVars == <<cache, parsers>>

vars ==
    <<interceptor, connector, conns, wrapped, closed, pending, last, probes,
      callerVars, builderVars, queryVars, parseVars>>

----------------------------------------------------------------------------
(* Bounds of the model. *)

\* How many connections the host runtime obtains from the connector in one run.
MaxConns == 2

\* What the host passes to an operation: a context, a query text and an
\* argument list (the transaction options, for BeginTx; the named value, for
\* CheckNamedValue). The two inputs differ in every component.
Inputs ==
    { [ctx |-> "ctx1", query |-> "q1", args |-> "args1"],
      [ctx |-> "ctx2", query |-> "q2", args |-> "args2"] }
Ctxs == {in.ctx : in \in Inputs}

\* The data source names the host passes to sql.Open.
DSNs == {"dsn", ""}

----------------------------------------------------------------------------
(* database/sql/driver: the optional interfaces and their methods.          *)

Pinger == "driver.Pinger"
ExecerContext == "driver.ExecerContext"
QueryerContext == "driver.QueryerContext"
ConnPrepareContext == "driver.ConnPrepareContext"
ConnBeginTx == "driver.ConnBeginTx"
SessionResetter == "driver.SessionResetter"
Validator == "driver.Validator"
NamedValueChecker == "driver.NamedValueChecker"

\* The five interfaces wrappedConn implements itself.
OpInterfaces == {Pinger, ExecerContext, QueryerContext, ConnPrepareContext, ConnBeginTx}

\* The three pass-through facets probed by Connect.
FacetInterfaces == {SessionResetter, Validator, NamedValueChecker}

OptionalInterfaces == OpInterfaces \cup FacetInterfaces

\* The method each optional interface declares.
InterfaceMethod(iface) ==
    CASE iface = Pinger -> "Ping"
      [] iface = ExecerContext -> "ExecContext"
      [] iface = QueryerContext -> "QueryContext"
      [] iface = ConnPrepareContext -> "PrepareContext"
      [] iface = ConnBeginTx -> "BeginTx"
      [] iface = SessionResetter -> "ResetSession"
      [] iface = Validator -> "IsValid"
      [] iface = NamedValueChecker -> "CheckNamedValue"

\* The methods of driver.Conn, the mandatory baseline.
ConnMethods == {"Prepare", "Close", "Begin"}

ErrSkip == "driver.ErrSkip"
NoError == "nil"
NoValue == "nil"

----------------------------------------------------------------------------
(* The struct types of the package and the method set Go gives each.        *)

wrappedConnT == "wrappedConn"
wrappedConnSessionResetterT == "wrappedConnSessionResetter"
wrappedConnValidatorT == "wrappedConnValidator"
wrappedConnNamedValueCheckerT == "wrappedConnNamedValueChecker"
StructSVN == "struct{wrappedConn; SessionResetter; Validator; NamedValueChecker}"
StructSV == "struct{wrappedConn; SessionResetter; Validator}"
StructSN == "struct{wrappedConn; SessionResetter; NamedValueChecker}"
StructVN == "struct{wrappedConn; Validator; NamedValueChecker}"
DriverConnT == "driver.Conn"

WrapperTypes ==
    {wrappedConnT, wrappedConnSessionResetterT, wrappedConnValidatorT,
     wrappedConnNamedValueCheckerT, StructSVN, StructSV, StructSN, StructVN}

\* The methods a type declares itself (for the interface driver.Conn: its methods).
Declared(t) ==
    CASE t = DriverConnT -> ConnMethods
      [] t = wrappedConnT ->
            {"Ping", "ExecContext", "QueryContext", "PrepareContext", "BeginTx"}
      [] t = wrappedConnSessionResetterT -> {"ResetSession"}
      [] t = wrappedConnValidatorT -> {"IsValid"}
      [] t = wrappedConnNamedValueCheckerT -> {"CheckNamedValue"}
      [] OTHER -> {}

\* The embedded fields of a type, in declaration order.
Embeds(t) ==
    CASE t = wrappedConnT -> <<DriverConnT>>
      [] t = wrappedConnSessionResetterT -> <<wrappedConnT>>
      [] t = wrappedConnValidatorT -> <<wrappedConnT>>
      [] t = wrappedConnNamedValueCheckerT -> <<wrappedConnT>>
      [] t = StructSVN ->
            <<wrappedConnT, wrappedConnSessionResetterT, wrappedConnValidatorT,
              wrappedConnNamedValueCheckerT>>
      [] t = StructSV ->
            <<wrappedConnT, wrappedConnSessionResetterT, wrappedConnValidatorT>>
      [] t = StructSN ->
            <<wrappedConnT, wrappedConnSessionResetterT, wrappedConnNamedValueCheckerT>>
      [] t = StructVN ->
            <<wrappedConnT, wrappedConnValidatorT, wrappedConnNamedValueCheckerT>>
      [] OTHER -> <<>>

AllMethods == ConnMethods \cup {InterfaceMethod(i) : i \in OptionalInterfaces}

RECURSIVE SumSeq(_)
SumSeq(s) == IF s = <<>> THEN 0 ELSE Head(s) + SumSeq(Tail(s))

\* How deep the embedding of a type goes.
RECURSIVE TypeDepth(_)
TypeDepth(t) ==
    IF Embeds(t) = <<>> THEN 0
    ELSE LET ds == {TypeDepth(Embeds(t)[i]) : i \in 1..Len(Embeds(t))}
         IN  1 + CHOOSE d \in ds : \A e \in ds : e <= d

\* How many fields or methods named m the type has at embedding depth d.
RECURSIVE CountAt(_, _, _)
CountAt(t, m, d) ==
    IF d = 0 THEN (IF m \in Declared(t) THEN 1 ELSE 0)
    ELSE SumSeq([i \in 1..Len(Embeds(t)) |-> CountAt(Embeds(t)[i], m, d - 1)])

\* Go's selector rule: m is promoted from the shallowest depth that has it, and
\* only when exactly one field or method of that name sits at that depth.
HasMethod(t, m) ==
    \E d \in 0..TypeDepth(t) :
        /\ CountAt(t, m, d) = 1
        /\ \A e \in 0..(d - 1) : CountAt(t, m, e) = 0

MethodSet(t) == {m \in AllMethods : HasMethod(t, m)}

\* The type assertion v.(iface) on a value of struct type t succeeds.
Implements(t, iface) == InterfaceMethod(iface) \in MethodSet(t)

\* The optional interfaces the host runtime detects on a value of type t.
Exposed(t) == {i \in OptionalInterfaces : Implements(t, i)}

\* Exposed, tabulated once per wrapper type.
ExposedOf == [t \in WrapperTypes |-> Exposed(t)]

----------------------------------------------------------------------------
(* The drivers the Interceptor may wrap, and what their connections return. *)

\* The op interfaces the connections of the mock drivers implement: none
\* (unimplementedConn), exec, query and prepare (spyConn), everything but exec
\* and query (a driver that always prepares), and all five.
UnimplementedConn == {}
SpyConn == {ExecerContext, QueryerContext, ConnPrepareContext}
PreparingConn == {Pinger, ConnPrepareContext, ConnBeginTx}
FullConn == OpInterfaces

\* The dynamic types a driver's connections may have: the bare connection with
\* each of the 8 combinations of the three facets, the full connection without
\* and with all facets, and the two partial ones.
ConnTypes ==
    {UnimplementedConn \cup f : f \in SUBSET FacetInterfaces}
    \cup {FullConn, FullConn \cup FacetInterfaces, SpyConn, PreparingConn}

\* The callbacks of an Interceptor: each field is set or nil.
CallbackNames == {"ExecContext", "QueryContext", "PrepareContext", "BeginTx"}

\* The connections of a driver that is a driver.DriverContext as well: every
\* op interface, SessionResetter and NamedValueChecker, but not Validator.
ContextConn == FullConn \cup {SessionResetter, NamedValueChecker}

\* The drivers: conn is the dynamic type of the connections the driver hands
\* out, context tells whether the driver implements driver.DriverContext.
Drivers ==
    {[conn |-> t, context |-> FALSE] : t \in ConnTypes}
    \cup {[conn |-> ContextConn, context |-> TRUE]}

\* Interceptor values: Driver is the wrapped driver; callbacks is the set of the
\* callback fields that are not nil.
Interceptors ==
    [Driver : Drivers, callbacks : SUBSET CallbackNames]

\* What the OpenConnector of a driver.DriverContext may fail with.
OpenConnectorErrors == {"errOpenConnector"}

\* What a method of an underlying connection may return: a value, an error of
\* its own, or driver.ErrSkip.
UnderlyingReturns ==
    { [res |-> "res", err |-> NoError],
      [res |-> NoValue, err |-> "errCalled"],
      [res |-> NoValue, err |-> ErrSkip] }

\* What a method returning only an error may return.
ErrorReturns ==
    { [res |-> NoValue, err |-> NoError],
      [res |-> NoValue, err |-> "errCalled"] }

\* What IsValid may return.
BoolReturns ==
    { [res |-> "true", err |-> NoError],
      [res |-> "false", err |-> NoError] }

\* What the underlying connector's Connect may fail with.
ConnectErrors == {"errConnect", "errRefused"}

\* What a callback returns when it does not return its delegate's result.
CallbackReturns == {[res |-> "cbres", err |-> "cberr"]}

\* What a registered callback does with its delegate: call it and return its
\* result, return without calling it, or call it and return something else.
CallbackBehaviours ==
    {[mode |-> "delegate", ret |-> [res |-> NoValue, err |-> NoError]]}
    \cup [mode : {"shortcircuit", "override"}, ret : CallbackReturns]

\* The ways one operation may run: what the callback does if it is invoked and
\* what the underlying method returns if it is called (a return that nobody
\* looks at is not varied).
Runs ==
    {[b |-> b, ret |-> r] : b \in {c \in CallbackBehaviours : c.mode = "delegate"},
                            r \in UnderlyingReturns}
    \cup {[b |-> b, ret |-> [res |-> "res", err |-> NoError]] :
             b \in {c \in CallbackBehaviours : c.mode # "delegate"}}

----------------------------------------------------------------------------
(* Records of what one operation did.                                       *)

\* One call of a method of an underlying connection (or connector), and what it
\* returned.
Call(conn, method, ctx, query, args, ret) ==
    [conn |-> conn, method |-> method, ctx |-> ctx, query |-> query, args |-> args,
     ret |-> ret]

\* One invocation of a callback of the Interceptor: what it was passed, whether
\* it called its delegate (mode), and what it returned.
Invocation(name, ctx, query, args, delegate, mode, ret) ==
    [name |-> name, ctx |-> ctx, query |-> query, args |-> args,
     delegate |-> delegate, mode |-> mode, ret |-> ret]

\* The operation returned (res, err) after the callback invocations cb and the
\* underlying calls under.
Returned(res, err, cb, under) ==
    [outcome |-> "return", res |-> res, err |-> err, panic |-> <<>>,
     cb |-> cb, under |-> under]

\* The operation panicked with msg before calling anything.
Panicked(msg) ==
    [outcome |-> "panic", res |-> NoValue, err |-> NoError, panic |-> msg,
     cb |-> <<>>, under |-> <<>>]

NoOutcome == Returned(NoValue, NoError, <<>>, <<>>)

\* The record kept of the last operation: what the host passed, whether the host
\* issued it as the fallback after driver.ErrSkip, and what came of it.
Record(op, w, ctx, query, args, fallback, out) ==
    [op |-> op, w |-> w, ctx |-> ctx, query |-> query, args |-> args,
     fallback |-> fallback, out |-> out]

NoPending == [w |-> 0, ctx |-> "", query |-> ""]

\* A dsnConnector{dsn, driver}.
dsnConnector(dsn, driver) == [kind |-> "dsnConnector", dsn |-> dsn, driver |-> driver]

\* The connector a driver.DriverContext builds itself for name.
DriverConnector(name, driver) ==
    [kind |-> "driver.Connector", dsn |-> name, driver |-> driver]

\* A wrappedConnector that keeps the driver but a callback set of its own.
wrappedConnectorOwnCallbacks(c, i) ==
    [opened |-> TRUE, Connector |-> c, interceptor |-> [i EXCEPT !.callbacks = {}]]

\* A wrappedConnector{c, i}.
wrappedConnector(c, i) == [opened |-> TRUE, Connector |-> c, interceptor |-> i]

\* No connector: what OpenConnector returns beside an error.
NoConnector ==
    LET none == [conn |-> {}, context |-> FALSE]
    IN  [opened |-> FALSE, Connector |-> [kind |-> "", dsn |-> "", driver |-> none],
         interceptor |-> [Driver |-> none, callbacks |-> {}]]

\* The dynamic type (set of optional interfaces) of underlying connection id.
ConnType(id) == conns[id].type

----------------------------------------------------------------------------
(* The callbacks, as their documentation and the tests write them.          *)

\* A callback registered under name, invoked with (ctx, query, args) and a
\* delegate bound to connection delegate, behaving as b; ret is what the
\* delegate's method returns if it is called.
RunCallback(name, ctx, query, args, delegate, b, ret) ==
    LET call == <<Call(delegate, name, ctx, query, args, ret)>>
        back == IF b.mode = "delegate" THEN ret ELSE b.ret
        inv == <<Invocation(name, ctx, query, args, delegate, b.mode, back)>>
    IN  Returned(back.res, back.err, inv,
                 IF b.mode = "shortcircuit" THEN <<>> ELSE call)

----------------------------------------------------------------------------
(* wrappedConn: c is the struct value [Conn, interceptor].                  *)

\* The message of the panics of wrappedConn: the fixed text and the interface.
NotImplemented(iface) == <<"queries: driver does not implement", iface>>

\* Ping without the capability check: the nil pinger is called and the error
\* it would give is returned.
PingUnchecked(c, ctx, ret) ==
    Returned(ret.res, ret.err, <<>>, <<Call(c.Conn, "Ping", ctx, "", "", ret)>>)

\* wrappedConn.Ping
Ping(c, ctx, ret) ==
    IF Pinger \notin ConnType(c.Conn)
    THEN Panicked(NotImplemented(Pinger))
    ELSE Returned(ret.res, ret.err, <<>>, <<Call(c.Conn, "Ping", ctx, "", "", ret)>>)

\* ExecContext handing the callback a fresh context instead of the caller's.
ExecContextFreshCtx(c, ctx, query, args, b, ret) ==
    IF ExecerContext \notin ConnType(c.Conn)
    THEN Returned(NoValue, ErrSkip, <<>>, <<>>)
    ELSE IF "ExecContext" \in c.interceptor.callbacks
    THEN RunCallback("ExecContext", "context.Background", query, args, c.Conn, b, ret)
    ELSE Returned(ret.res, ret.err, <<>>,
                  <<Call(c.Conn, "ExecContext", ctx, query, args, ret)>>)

\* ExecContext panicking when the connection is no driver.ExecerContext.
ExecContextPanics(c, ctx, query, args, b, ret) ==
    IF ExecerContext \notin ConnType(c.Conn)
    THEN Panicked(NotImplemented(ExecerContext))
    ELSE IF "ExecContext" \in c.interceptor.callbacks
    THEN RunCallback("ExecContext", ctx, query, args, c.Conn, b, ret)
    ELSE Returned(ret.res, ret.err, <<>>,
                  <<Call(c.Conn, "ExecContext", ctx, query, args, ret)>>)

\* ExecContext invoking a registered callback before it looks at the connection.
ExecContextCallbackFirst(c, ctx, query, args, b, ret) ==
    IF "ExecContext" \in c.interceptor.callbacks
    THEN RunCallback("ExecContext", ctx, query, args, c.Conn, b, ret)
    ELSE IF ExecerContext \notin ConnType(c.Conn)
    THEN Returned(NoValue, ErrSkip, <<>>, <<>>)
    ELSE Returned(ret.res, ret.err, <<>>,
                  <<Call(c.Conn, "ExecContext", ctx, query, args, ret)>>)

\* wrappedConn.ExecContext
ExecContext(c, ctx, query, args, b, ret) ==
    IF ExecerContext \notin ConnType(c.Conn)
    THEN Returned(NoValue, ErrSkip, <<>>, <<>>)
    ELSE IF "ExecContext" \in c.interceptor.callbacks
    THEN RunCallback("ExecContext", ctx, query, args, c.Conn, b, ret)
    ELSE Returned(ret.res, ret.err, <<>>,
                  <<Call(c.Conn, "ExecContext", ctx, query, args, ret)>>)

\* QueryContext calling the connection itself after the callback and returning
\* what the connection returned.
QueryContextCallsBoth(c, ctx, query, args, b, ret) ==
    IF QueryerContext \notin ConnType(c.Conn)
    THEN Returned(NoValue, ErrSkip, <<>>, <<>>)
    ELSE IF "QueryContext" \in c.interceptor.callbacks
    THEN LET r == RunCallback("QueryContext", ctx, query, args, c.Conn, b, ret)
         IN  Returned(ret.res, ret.err, r.cb,
                      Append(r.under,
                             Call(c.Conn, "QueryContext", ctx, query, args, ret)))
    ELSE Returned(ret.res, ret.err, <<>>,
                  <<Call(c.Conn, "QueryContext", ctx, query, args, ret)>>)

\* wrappedConn.QueryContext
QueryContext(c, ctx, query, args, b, ret) ==
    IF QueryerContext \notin ConnType(c.Conn)
    THEN Returned(NoValue, ErrSkip, <<>>, <<>>)
    ELSE IF "QueryContext" \in c.interceptor.callbacks
    THEN RunCallback("QueryContext", ctx, query, args, c.Conn, b, ret)
    ELSE Returned(ret.res, ret.err, <<>>,
                  <<Call(c.Conn, "QueryContext", ctx, query, args, ret)>>)

\* PrepareContext guarded by the ExecContext callback: the PrepareContext
\* callback, nil or not, is called when the ExecContext callback is set.
PrepareContextExecGuard(c, ctx, query, b, ret) ==
    IF ConnPrepareContext \notin ConnType(c.Conn)
    THEN Panicked(NotImplemented(ConnPrepareContext))
    ELSE IF "ExecContext" \in c.interceptor.callbacks
    THEN IF "PrepareContext" \in c.interceptor.callbacks
         THEN RunCallback("PrepareContext", ctx, query, "", c.Conn, b, ret)
         ELSE Panicked(<<"invalid memory address or nil pointer dereference">>)
    ELSE Returned(ret.res, ret.err, <<>>,
                  <<Call(c.Conn, "PrepareContext", ctx, query, "", ret)>>)

\* PrepareContext that never looks at the callback.
PrepareContextDirect(c, ctx, query, b, ret) ==
    IF ConnPrepareContext \notin ConnType(c.Conn)
    THEN Panicked(NotImplemented(ConnPrepareContext))
    ELSE Returned(ret.res, ret.err, <<>>,
                  <<Call(c.Conn, "PrepareContext", ctx, query, "", ret)>>)

\* wrappedConn.PrepareContext
PrepareContext(c, ctx, query, b, ret) ==
    IF ConnPrepareContext \notin ConnType(c.Conn)
    THEN Panicked(NotImplemented(ConnPrepareContext))
    ELSE IF "PrepareContext" \in c.interceptor.callbacks
    THEN RunCallback("PrepareContext", ctx, query, "", c.Conn, b, ret)
    ELSE Returned(ret.res, ret.err, <<>>,
                  <<Call(c.Conn, "PrepareContext", ctx, query, "", ret)>>)

\* BeginTx answering driver.ErrSkip when the connection is no driver.ConnBeginTx.
BeginTxSkips(c, ctx, opts, b, ret) ==
    IF ConnBeginTx \notin ConnType(c.Conn)
    THEN Returned(NoValue, ErrSkip, <<>>, <<>>)
    ELSE IF "BeginTx" \in c.interceptor.callbacks
    THEN RunCallback("BeginTx", ctx, "", opts, c.Conn, b, ret)
    ELSE Returned(ret.res, ret.err, <<>>,
                  <<Call(c.Conn, "BeginTx", ctx, "", opts, ret)>>)

\* BeginTx that never looks at the callback.
BeginTxDirect(c, ctx, opts, b, ret) ==
    IF ConnBeginTx \notin ConnType(c.Conn)
    THEN Panicked(NotImplemented(ConnBeginTx))
    ELSE Returned(ret.res, ret.err, <<>>,
                  <<Call(c.Conn, "BeginTx", ctx, "", opts, ret)>>)

\* wrappedConn.BeginTx
BeginTx(c, ctx, opts, b, ret) ==
    IF ConnBeginTx \notin ConnType(c.Conn)
    THEN Panicked(NotImplemented(ConnBeginTx))
    ELSE IF "BeginTx" \in c.interceptor.callbacks
    THEN RunCallback("BeginTx", ctx, "", opts, c.Conn, b, ret)
    ELSE Returned(ret.res, ret.err, <<>>,
                  <<Call(c.Conn, "BeginTx", ctx, "", opts, ret)>>)

\* A failed single-value type assertion c.Conn.(I) is a run-time panic.
ConversionPanic(iface) == <<"interface conversion: driver.Conn is not", iface>>

\* wrappedConnSessionResetter.ResetSession
ResetSession(c, ctx, ret) ==
    IF SessionResetter \notin ConnType(c.Conn)
    THEN Panicked(ConversionPanic(SessionResetter))
    ELSE Returned(ret.res, ret.err, <<>>,
                  <<Call(c.Conn, "ResetSession", ctx, "", "", ret)>>)

\* wrappedConnValidator.IsValid
IsValid(c, ret) ==
    IF Validator \notin ConnType(c.Conn)
    THEN Panicked(ConversionPanic(Validator))
    ELSE Returned(ret.res, ret.err, <<>>, <<Call(c.Conn, "IsValid", "", "", "", ret)>>)

\* CheckNamedValue that swallows the checker's error.
CheckNamedValueSwallows(c, nv, ret) ==
    IF NamedValueChecker \notin ConnType(c.Conn)
    THEN Panicked(ConversionPanic(NamedValueChecker))
    ELSE Returned(ret.res, NoError, <<>>,
                  <<Call(c.Conn, "CheckNamedValue", "", "", nv, ret)>>)

\* wrappedConnNamedValueChecker.CheckNamedValue
CheckNamedValue(c, nv, ret) ==
    IF NamedValueChecker \notin ConnType(c.Conn)
    THEN Panicked(ConversionPanic(NamedValueChecker))
    ELSE Returned(ret.res, ret.err, <<>>,
                  <<Call(c.Conn, "CheckNamedValue", "", "", nv, ret)>>)

\* Every interface asserted once, by Connect, and never again by a method.
TypeQueriesOnceAtConnect(op, conn) ==
    IF op = "Connect"
    THEN {[conn |-> conn, iface |-> f] : f \in OptionalInterfaces}
    ELSE {}

\* The type assertions operation op makes on connection conn: Connect asserts
\* the three facets; every method of the wrappers asserts its own interface;
\* Close and the methods of the connector assert nothing on a connection.
TypeQueries(op, conn) ==
    IF op = "Connect"
    THEN {[conn |-> conn, iface |-> f] : f \in FacetInterfaces}
    ELSE {[conn |-> conn, iface |-> i] :
             i \in {j \in OptionalInterfaces : InterfaceMethod(j) = op}}

----------------------------------------------------------------------------
(* Interceptor.OpenConnector and wrappedConnector.Connect.                  *)

AnonymousStructs == {StructSVN, StructSV, StructSN, StructVN}

\* The embedded fields a value of wrapper type t is built from.
FieldsOf(t) ==
    IF t \in AnonymousStructs
    THEN {Embeds(t)[k] : k \in 1..Len(Embeds(t))}
    ELSE {t}

\* A value of wrapper type t, every embedded field built from wconn.
Compose(t, wconn) == [type |-> t, fields |-> [f \in FieldsOf(t) |-> wconn]]

\* The named type that declares method m.
DeclaringType(m) ==
    CASE m = "ResetSession" -> wrappedConnSessionResetterT
      [] m = "IsValid" -> wrappedConnValidatorT
      [] m = "CheckNamedValue" -> wrappedConnNamedValueCheckerT
      [] OTHER -> wrappedConnT

\* The wrappedConn that is the receiver when method m is called on value v.
Receiver(v, m) ==
    IF v.type \in AnonymousStructs THEN v.fields[DeclaringType(m)]
    ELSE v.fields[v.type]

\* Connect without the switch: every facet is always composed in.
WrapConnAllFacets(conn, connType, i) ==
    Compose(StructSVN, [Conn |-> conn, interceptor |-> i])

\* The switch of Connect: the value returned for connection conn of dynamic
\* type connType.
WrapConn(conn, connType, i) ==
    LET wconn == [Conn |-> conn, interceptor |-> i]
        isSessionResetter == SessionResetter \in connType
        isValidator == Validator \in connType
        isNamedValueChecker == NamedValueChecker \in connType
    IN  CASE isSessionResetter /\ isValidator /\ isNamedValueChecker ->
                Compose(StructSVN, wconn)
          [] isSessionResetter /\ isValidator /\ ~isNamedValueChecker ->
                Compose(StructSV, wconn)
          [] isSessionResetter /\ ~isValidator /\ isNamedValueChecker ->
                Compose(StructSN, wconn)
          [] ~isSessionResetter /\ isValidator /\ isNamedValueChecker ->
                Compose(StructVN, wconn)
          [] isSessionResetter /\ ~isValidator /\ ~isNamedValueChecker ->
                Compose(wrappedConnSessionResetterT, wconn)
          [] ~isSessionResetter /\ isValidator /\ ~isNamedValueChecker ->
                Compose(wrappedConnValidatorT, wconn)
          [] ~isSessionResetter /\ ~isValidator /\ isNamedValueChecker ->
                Compose(wrappedConnNamedValueCheckerT, wconn)
          [] OTHER -> Compose(wrappedConnT, wconn)

NoWrapper == [type |-> "", fields |-> <<>>]

\* Connect calling the underlying connector a second time when it failed.
ConnectorConnectRetries(c, ctx, ret) ==
    LET call == <<Call(0, "Connect", ctx, "", "", ret)>>
    IN  IF ret.err # NoError
        THEN [value |-> NoWrapper, err |-> ret.err, under |-> call \o call]
        ELSE [value |-> WrapConn(ret.conn, ret.type, c.interceptor),
              err |-> NoError, under |-> call]

\* Connect keeping the first wrapper it built and returning it again.
ConnectorConnectCached(c, ctx, ret) ==
    LET call == <<Call(0, "Connect", ctx, "", "", ret)>>
    IN  IF ret.err # NoError
        THEN [value |-> NoWrapper, err |-> ret.err, under |-> call]
        ELSE [value |-> IF wrapped # <<>> THEN wrapped[1]
                        ELSE WrapConn(ret.conn, ret.type, c.interceptor),
              err |-> NoError, under |-> call]

\* wrappedConnector.Connect: ret is what the underlying connector's Connect
\* returned: a new connection ret.conn of dynamic type ret.type, or ret.err.
ConnectorConnect(c, ctx, ret) ==
    LET call == <<Call(0, "Connect", ctx, "", "", ret)>>
    IN  IF ret.err # NoError
        THEN [value |-> NoWrapper, err |-> ret.err, under |-> call]
        ELSE [value |-> WrapConn(ret.conn, ret.type, c.interceptor),
              err |-> NoError, under |-> call]

\* What d.OpenConnector(name) of a driver.DriverContext may return.
DriverOpenConnectorReturns(d, name) ==
    {[c |-> DriverConnector(name, d), err |-> NoError]}
    \cup {[c |-> NoConnector.Connector, err |-> e] : e \in OpenConnectorErrors}

\* OpenConnector that never asks the driver for its own connector.
InterceptorOpenConnectorDsnOnly(i, name, ret) ==
    [value |-> wrappedConnector(dsnConnector(name, i.Driver), i),
     err |-> NoError, under |-> <<>>]

\* OpenConnector refusing a driver whose connections cannot prepare or begin.
InterceptorOpenConnectorProbes(i, name, ret) ==
    IF ~({ConnPrepareContext, ConnBeginTx} \subseteq i.Driver.conn)
    THEN [value |-> NoConnector, err |-> "queries: driver does not implement",
          under |-> <<>>]
    ELSE IF i.Driver.context
    THEN LET call == <<Call(0, "OpenConnector", "", name, "", ret)>>
         IN  IF ret.err # NoError
             THEN [value |-> NoConnector, err |-> ret.err, under |-> call]
             ELSE [value |-> wrappedConnector(ret.c, i), err |-> NoError,
                   under |-> call]
    ELSE [value |-> wrappedConnector(dsnConnector(name, i.Driver), i),
          err |-> NoError, under |-> <<>>]

\* Interceptor.OpenConnector: ret is what the driver's own OpenConnector returns
\* when the driver is a driver.DriverContext.
InterceptorOpenConnector(i, name, ret) ==
    IF i.Driver.context
    THEN LET call == <<Call(0, "OpenConnector", "", name, "", ret)>>
         IN  IF ret.err # NoError
             THEN [value |-> NoConnector, err |-> ret.err, under |-> call]
             ELSE [value |-> wrappedConnector(ret.c, i), err |-> NoError,
                   under |-> call]
    ELSE [value |-> wrappedConnector(dsnConnector(name, i.Driver), i),
          err |-> NoError, under |-> <<>>]

\* Driver.Open(name): a new connection of the driver's type, or an error; open
\* keeps the name Open was called with.
DriverOpen(d, name) ==
    {[conn |-> Len(conns) + 1, type |-> d.conn, err |-> NoError, open |-> <<name>>]}
    \cup {[conn |-> 0, type |-> {}, err |-> e, open |-> <<name>>] :
             e \in ConnectErrors}

\* dsnConnector.Connect
dsnConnectorConnect(t) == DriverOpen(t.driver, t.dsn)

\* Connect of the connector a driver.DriverContext built: the driver's Open is
\* not gone through.
DriverConnectorConnect(t) ==
    {[r EXCEPT !.open = <<>>] : r \in DriverOpen(t.driver, t.dsn)}

\* c.Connector.Connect(ctx): what the embedded connector may return.
UnderlyingConnects(c) ==
    IF c.Connector.kind = "dsnConnector"
    THEN dsnConnectorConnect(c.Connector)
    ELSE DriverConnectorConnect(c.Connector)

\* A wrappedConnector with a Driver method of its own, returning the Interceptor.
wrappedConnectorDriverOwn(c) == c.interceptor

\* wrappedConnector.Driver: promoted from the embedded connector, which returns
\* the driver it was built for (dsnConnector.Driver, or the driver's connector).
wrappedConnectorDriver(c) == c.Connector.driver

\* The concurrent callers of the host runtime.
Callers == {1, 2}

\* No caller has a connection (w is the index of its wrapper, conn the
\* connection it obtained, tx whether it has a transaction open); no caller has
\* a call in flight.
NoCallers == [p \in Callers |-> [w |-> 0, conn |-> 0, tx |-> FALSE]]
Idle == [pc |-> "idle"]
NoFrames == [p \in Callers |-> Idle]

\* The values of Builder.placeholder: zero, a placeholder verb, or -1.
NoPlaceholder == "0"
DifferentPlaceholders == "-1"

\* The zero Builder.
NewBuilder ==
    [query |-> <<>>, args |-> <<>>, counter |-> 0, placeholder |-> NoPlaceholder]

\* Query was not called since the last Appendf.
NotQueried == [outcome |-> "none", msg |-> <<>>, query |-> <<>>]

\* sql.ErrNoRows
ErrNoRows == "sql.ErrNoRows"

\* An element of an iter.Seq2[T, error], or the (T, error) a function returns;
\* the zero T is 0, the rows carry the values 1, 2, ...
Element(v, err) == [v |-> v, err |-> err]

\* No row set: QueryContext has not returned one.
NoRows ==
    [exists |-> FALSE, data |-> <<>>, err |-> NoError, pos |-> 0, scans |-> 0,
     closes |-> 0]

\* No call of Query or QueryRow.
NoRun ==
    [fn |-> "none", pc |-> "idle", stop |-> 0, queryErr |-> NoError,
     columnsErr |-> NoError, lateErr |-> NoError, t |-> 0, out |-> <<>>,
     res |-> Element(0, "pending")]

\* No call of Collect.
NoCollect ==
    [pc |-> "idle", seq |-> <<>>, pos |-> 0, ts |-> <<>>,
     res |-> [ts |-> <<>>, err |-> "pending"]]

\* The struct types parseStruct is called for, as the sequences of their fields:
\* exported or not, with a sql tag or not, and the column the tag names.
Field(exported, tagged, column) ==
    [exported |-> exported, tagged |-> tagged, column |-> column]
StructTypes ==
    [dto |-> <<Field(TRUE, TRUE, "id"), Field(TRUE, TRUE, "name"),
               Field(FALSE, TRUE, "secret"), Field(TRUE, FALSE, ""),
               Field(TRUE, TRUE, "")>>,
     twice |-> <<Field(TRUE, TRUE, "id"), Field(TRUE, TRUE, "id")>>,
     bare |-> <<>>]
TypeNames == DOMAIN StructTypes

\* The goroutines that scan rows.
Parsers == {1, 2}

\* A column-to-index map is a set of pairs; no entry of the cache is NoEntry.
NoEntry == {<<"", 0>>}
NoCache == [t \in TypeNames |-> NoEntry]
NoParsers ==
    [p \in Parsers |->
        [pc |-> "idle", t |-> "bare", i |-> 0, indexes |-> {}, calls |-> 0,
         got |-> {}]]

----------------------------------------------------------------------------
(* The state machine: the host runtime (database/sql) driving the wrappers. *)

Init ==
    /\ interceptor \in Interceptors
    /\ connector = NoConnector
    /\ conns = <<>>
    /\ wrapped = <<>>
    /\ closed = {}
    /\ pending = NoPending
    /\ last = Record("none", 0, "", "", "", FALSE, NoOutcome)
    /\ probes = {}
    /\ own = NoCallers
    /\ frames = NoFrames
    /\ builder = NewBuilder
    /\ appended = <<>>
    /\ queried = NotQueried
    /\ rows = NoRows
    /\ active = NoRun
    /\ collect = NoCollect
    /\ cache = NoCache
    /\ parsers = NoParsers

\* An Interceptor that is a driver.Driver only.
InterceptorMethodsOpenOnly == {"Open"}

\* The entry points Interceptor declares: it is a driver.Driver and a
\* driver.DriverContext.
InterceptorMethods == {"Open", "OpenConnector"}

\* Interceptor.Open
InterceptorOpen(name) == Panicked(<<"unreachable">>)

\* The entry point sql.Open takes on a registered driver: OpenConnector when the
\* driver is a driver.DriverContext, Open otherwise.
HostEntry(methods) == IF "OpenConnector" \in methods THEN "OpenConnector" ELSE "Open"

\* The wrapped connections the host may operate on.
Open == {w \in 1..Len(wrapped) : w \notin closed}

\* sql.Open(name, dsn): the registered Interceptor's OpenConnector.
OpenConnector ==
    /\ ~connector.opened
    /\ \E name \in DSNs :
       \E ret \in DriverOpenConnectorReturns(interceptor.Driver, name) :
        LET r == InterceptorOpenConnector(interceptor, name, ret)
        IN  IF HostEntry(InterceptorMethods) = "OpenConnector"
            THEN /\ connector' = r.value
                 /\ last' = Record("OpenConnector", 0, "", name, "", FALSE,
                                   Returned(IF r.value.opened THEN "connector" ELSE NoValue,
                                            r.err, <<>>, r.under))
            ELSE /\ connector' = connector
                 /\ last' = Record("Open", 0, "", name, "", FALSE, InterceptorOpen(name))
    /\ UNCHANGED <<interceptor, conns, wrapped, closed, pending>>
    /\ probes' = {}
    /\ UNCHANGED <<callerVars, builderVars, queryVars, parseVars>>

\* db.Driver(): the Driver method of the connector sql.Open was given.
DoDriver ==
    /\ connector.opened
    /\ pending = NoPending
    /\ last' = Record("Driver", 0, "", "", "", FALSE,
                      Returned(wrappedConnectorDriver(connector), NoError, <<>>, <<>>))
    /\ UNCHANGED <<interceptor, connector, conns, wrapped, closed, pending>>
    /\ probes' = {}
    /\ UNCHANGED <<callerVars, builderVars, queryVars, parseVars>>

\* The host asks the wrapped connector for a new connection.
Connect ==
    /\ connector.opened
    /\ pending = NoPending
    /\ Len(wrapped) < MaxConns
    /\ \E ctx \in Ctxs, ret \in UnderlyingConnects(connector) :
        LET r == ConnectorConnect(connector, ctx, ret)
        IN  /\ conns' = IF ret.err = NoError
                        THEN Append(conns, [type |-> ret.type])
                        ELSE conns
            /\ wrapped' = IF r.value # NoWrapper THEN Append(wrapped, r.value)
                          ELSE wrapped
            /\ last' = Record("Connect", 0, ctx, "", "", FALSE,
                              Returned(IF r.value # NoWrapper
                                       THEN "conn"
                                       ELSE NoValue,
                                       r.err, <<>>, r.under))
            /\ probes' = IF ret.err = NoError THEN TypeQueries("Connect", ret.conn)
                          ELSE {}
    /\ UNCHANGED <<interceptor, connector, closed, pending>>
    /\ UNCHANGED <<callerVars, builderVars, queryVars, parseVars>>

\* The host falls back to a prepared statement when exec or query returned
\* driver.ErrSkip.
Fallback(w, ctx, query, out) ==
    IF out.outcome = "return" /\ out.err = ErrSkip
    THEN [w |-> w, ctx |-> ctx, query |-> query]
    ELSE NoPending

\* db.PingContext on a connection that is a driver.Pinger.
DoPing(w) ==
    /\ pending = NoPending
    /\ Pinger \in ExposedOf[wrapped[w].type]
    /\ \E ctx \in Ctxs, ret \in ErrorReturns :
        last' = Record("Ping", w, ctx, "", "", FALSE,
                       Ping(Receiver(wrapped[w], "Ping"), ctx, ret))
    /\ UNCHANGED <<interceptor, connector, conns, wrapped, closed, pending>>
    /\ probes' = TypeQueries("Ping", Receiver(wrapped[w], "Ping").Conn)
    /\ UNCHANGED <<callerVars, builderVars, queryVars, parseVars>>

\* db.ExecContext on a connection that is a driver.ExecerContext.
DoExecContext(w) ==
    /\ pending = NoPending
    /\ ExecerContext \in ExposedOf[wrapped[w].type]
    /\ \E in \in Inputs, run \in Runs :
        LET out == ExecContext(Receiver(wrapped[w], "ExecContext"),
                               in.ctx, in.query, in.args, run.b, run.ret)
        IN  /\ last' = Record("ExecContext", w, in.ctx, in.query, in.args, FALSE, out)
            /\ pending' = Fallback(w, in.ctx, in.query, out)
    /\ UNCHANGED <<interceptor, connector, conns, wrapped, closed>>
    /\ probes' = TypeQueries("ExecContext", Receiver(wrapped[w], "ExecContext").Conn)
    /\ UNCHANGED <<callerVars, builderVars, queryVars, parseVars>>

\* db.QueryContext on a connection that is a driver.QueryerContext.
DoQueryContext(w) ==
    /\ pending = NoPending
    /\ QueryerContext \in ExposedOf[wrapped[w].type]
    /\ \E in \in Inputs, run \in Runs :
        LET out == QueryContext(Receiver(wrapped[w], "QueryContext"),
                                in.ctx, in.query, in.args, run.b, run.ret)
        IN  /\ last' = Record("QueryContext", w, in.ctx, in.query, in.args, FALSE, out)
            /\ pending' = Fallback(w, in.ctx, in.query, out)
    /\ UNCHANGED <<interceptor, connector, conns, wrapped, closed>>
    /\ probes' = TypeQueries("QueryContext", Receiver(wrapped[w], "QueryContext").Conn)
    /\ UNCHANGED <<callerVars, builderVars, queryVars, parseVars>>

\* db.PrepareContext on a connection that is a driver.ConnPrepareContext.
DoPrepareContext(w) ==
    /\ pending = NoPending
    /\ ConnPrepareContext \in ExposedOf[wrapped[w].type]
    /\ \E in \in Inputs, run \in Runs :
        last' = Record("PrepareContext", w, in.ctx, in.query, "", FALSE,
                       PrepareContext(Receiver(wrapped[w], "PrepareContext"),
                                      in.ctx, in.query, run.b, run.ret))
    /\ UNCHANGED <<interceptor, connector, conns, wrapped, closed, pending>>
    /\ probes' = TypeQueries("PrepareContext", Receiver(wrapped[w], "PrepareContext").Conn)
    /\ UNCHANGED <<callerVars, builderVars, queryVars, parseVars>>

\* The prepare database/sql issues after driver.ErrSkip, on the same connection
\* with the same context and query.
DoFallbackPrepare ==
    /\ pending # NoPending
    /\ ConnPrepareContext \in ExposedOf[wrapped[pending.w].type]
    /\ \E run \in Runs :
        last' = Record("PrepareContext", pending.w, pending.ctx, pending.query, "", TRUE,
                       PrepareContext(Receiver(wrapped[pending.w], "PrepareContext"),
                                      pending.ctx, pending.query, run.b, run.ret))
    /\ pending' = NoPending
    /\ UNCHANGED <<interceptor, connector, conns, wrapped, closed>>
    /\ probes' = TypeQueries("PrepareContext",
                          Receiver(wrapped[pending.w], "PrepareContext").Conn)
    /\ UNCHANGED <<callerVars, builderVars, queryVars, parseVars>>

\* db.BeginTx on a connection that is a driver.ConnBeginTx.
DoBeginTx(w) ==
    /\ pending = NoPending
    /\ ConnBeginTx \in ExposedOf[wrapped[w].type]
    /\ \E in \in Inputs, run \in Runs :
        last' = Record("BeginTx", w, in.ctx, "", in.args, FALSE,
                       BeginTx(Receiver(wrapped[w], "BeginTx"),
                               in.ctx, in.args, run.b, run.ret))
    /\ UNCHANGED <<interceptor, connector, conns, wrapped, closed, pending>>
    /\ probes' = TypeQueries("BeginTx", Receiver(wrapped[w], "BeginTx").Conn)
    /\ UNCHANGED <<callerVars, builderVars, queryVars, parseVars>>

\* The host resets the session of a connection that is a driver.SessionResetter.
DoResetSession(w) ==
    /\ pending = NoPending
    /\ SessionResetter \in ExposedOf[wrapped[w].type]
    /\ \E ctx \in Ctxs, ret \in ErrorReturns :
        last' = Record("ResetSession", w, ctx, "", "", FALSE,
                       ResetSession(Receiver(wrapped[w], "ResetSession"), ctx, ret))
    /\ UNCHANGED <<interceptor, connector, conns, wrapped, closed, pending>>
    /\ probes' = TypeQueries("ResetSession", Receiver(wrapped[w], "ResetSession").Conn)
    /\ UNCHANGED <<callerVars, builderVars, queryVars, parseVars>>

\* The host validates a connection that is a driver.Validator.
DoIsValid(w) ==
    /\ pending = NoPending
    /\ Validator \in ExposedOf[wrapped[w].type]
    /\ \E ret \in BoolReturns :
        last' = Record("IsValid", w, "", "", "", FALSE,
                       IsValid(Receiver(wrapped[w], "IsValid"), ret))
    /\ UNCHANGED <<interceptor, connector, conns, wrapped, closed, pending>>
    /\ probes' = TypeQueries("IsValid", Receiver(wrapped[w], "IsValid").Conn)
    /\ UNCHANGED <<callerVars, builderVars, queryVars, parseVars>>

\* The host checks an argument on a connection that is a driver.NamedValueChecker.
DoCheckNamedValue(w) ==
    /\ pending = NoPending
    /\ NamedValueChecker \in ExposedOf[wrapped[w].type]
    /\ \E in \in Inputs, ret \in ErrorReturns :
        last' = Record("CheckNamedValue", w, "", "", in.args, FALSE,
                       CheckNamedValue(Receiver(wrapped[w], "CheckNamedValue"),
                                       in.args, ret))
    /\ UNCHANGED <<interceptor, connector, conns, wrapped, closed, pending>>
    /\ probes' = TypeQueries("CheckNamedValue", Receiver(wrapped[w], "CheckNamedValue").Conn)
    /\ UNCHANGED <<callerVars, builderVars, queryVars, parseVars>>

\* The host closes a connection: Close is promoted from the embedded driver.Conn.
DoClose(w) ==
    /\ pending = NoPending
    /\ closed' = closed \cup {w}
    /\ \E ret \in ErrorReturns :
        last' = Record("Close", w, "", "", "", FALSE,
                       Returned(ret.res, ret.err, <<>>,
                                <<Call(Receiver(wrapped[w], "Close").Conn,
                                       "Close", "", "", "", ret)>>))
    /\ UNCHANGED <<interceptor, connector, conns, wrapped, pending>>
    /\ probes' = TypeQueries("Close", Receiver(wrapped[w], "Close").Conn)
    /\ UNCHANGED <<callerVars, builderVars, queryVars, parseVars>>

Next ==
    \/ OpenConnector
    \/ Connect
    \/ DoDriver
    \/ DoFallbackPrepare
    \/ \E w \in Open : DoPing(w)
    \/ \E w \in Open : DoExecContext(w)
    \/ \E w \in Open : DoQueryContext(w)
    \/ \E w \in Open : DoPrepareContext(w)
    \/ \E w \in Open : DoBeginTx(w)
    \/ \E w \in Open : DoResetSession(w)
    \/ \E w \in Open : DoIsValid(w)
    \/ \E w \in Open : DoCheckNamedValue(w)
    \/ \E w \in Open : DoClose(w)

Spec == Init /\ [][Next]_vars

----------------------------------------------------------------------------
(* Concurrent callers: each opens its own connection from the one wrapped   *)
(* connector and issues operations; the steps of different callers          *)
(* interleave at every call that leaves the wrapper.                        *)

\* The Interceptors the callers run against: connections with every op
\* interface or without exec and query, and all callbacks registered or none.
CallerInterceptors ==
    {i \in Interceptors :
        /\ ~i.Driver.context
        /\ i.Driver.conn \in {FullConn, PreparingConn}
        /\ i.callbacks \in {CallbackNames, {}}}

\* The operations a caller issues, on the handle or on a transaction.
CallerOps == CallbackNames

\* How the operation of a caller may run.
CallerRuns ==
    {run \in Runs :
        /\ run.b.mode \in {"delegate", "shortcircuit"}
        /\ run.ret.err # ErrSkip}

\* Each caller passes its own context, query and arguments.
CallerInput(p) ==
    CHOOSE in \in Inputs : in.ctx = (IF p = 1 THEN "ctx1" ELSE "ctx2")

\* What operation op is passed of the input in.
OpInput(op, in) ==
    [ctx |-> in.ctx,
     query |-> IF op = "BeginTx" THEN "" ELSE in.query,
     args |-> IF op = "PrepareContext" THEN "" ELSE in.args]

\* The method op of wrappedConn called on receiver c.
Dispatch(c, op, in, run) ==
    CASE op = "ExecContext" ->
            ExecContext(c, in.ctx, in.query, in.args, run.b, run.ret)
      [] op = "QueryContext" ->
            QueryContext(c, in.ctx, in.query, in.args, run.b, run.ret)
      [] op = "PrepareContext" ->
            PrepareContext(c, in.ctx, in.query, run.b, run.ret)
      [] op = "BeginTx" ->
            BeginTx(c, in.ctx, in.args, run.b, run.ret)

\* A receiver taken from the wrapper the connector built last.
CallerReceiverLatest(p, op) == Receiver(wrapped[Len(wrapped)], op)

\* The receiver of a method the caller invokes: the wrappedConn of the wrapper
\* the caller got from Connect, copied by value.
CallerReceiver(p, op) == Receiver(wrapped[own[p].w], op)

\* Where a call stands after stage pc: in the callback, in the underlying
\* connection, or about to return.
NextStage(pc, out) ==
    IF pc = "called" /\ out.cb # <<>> THEN "callback"
    ELSE IF pc \in {"called", "callback"} /\ out.under # <<>> THEN "underlying"
    ELSE "returning"

InitCallers ==
    /\ Init
    /\ interceptor \in CallerInterceptors

\* A caller asks the wrapped connector for a connection: the embedded
\* connector's Connect has returned conn to this call of Connect.
CallerConnect(p) ==
    /\ connector.opened
    /\ own[p].w = 0
    /\ frames[p] = Idle
    /\ \E ret \in {r \in UnderlyingConnects(connector) : r.err = NoError} :
        /\ conns' = Append(conns, [type |-> ret.type])
        /\ frames' = [frames EXCEPT ![p] = [pc |-> "probing", ret |-> ret]]
    /\ UNCHANGED <<interceptor, connector, wrapped, closed, pending, last, probes,
                   own, builderVars, queryVars, parseVars>>

\* The rest of that Connect: probe the connection obtained, build the wrapper
\* and return it to the caller.
CallerWrap(p) ==
    /\ frames[p].pc = "probing"
    /\ LET r == ConnectorConnect(connector, CallerInput(p).ctx, frames[p].ret)
       IN  /\ wrapped' = Append(wrapped, r.value)
           /\ own' = [own EXCEPT ![p] = [w |-> Len(wrapped) + 1,
                                         conn |-> frames[p].ret.conn,
                                         tx |-> FALSE]]
    /\ frames' = [frames EXCEPT ![p] = Idle]
    /\ UNCHANGED <<interceptor, connector, conns, closed, pending, last, probes,
                   builderVars, queryVars, parseVars>>

\* A caller issues an operation on its connection, directly or through its
\* open transaction: the method of the wrapper runs up to the first call that
\* leaves it.
CallerIssue(p) ==
    /\ own[p].w # 0
    /\ frames[p] = Idle
    /\ \E op \in CallerOps, run \in CallerRuns :
        /\ ~(op = "BeginTx" /\ own[p].tx)
        /\ LET in == OpInput(op, CallerInput(p))
               out == Dispatch(CallerReceiver(p, op), op, in, run)
           IN  frames' = [frames EXCEPT ![p] =
                            [pc |-> NextStage("called", out), op |-> op, in |-> in,
                             tx |-> own[p].tx, out |-> out]]
    /\ UNCHANGED <<interceptor, connector, conns, wrapped, closed, pending, last,
                   probes, own, builderVars, queryVars, parseVars>>

\* The callback of a call in flight runs: it calls its delegate or returns.
CallerCallback(p) ==
    /\ frames[p].pc = "callback"
    /\ frames' = [frames EXCEPT ![p].pc = NextStage("callback", frames[p].out)]
    /\ UNCHANGED <<interceptor, connector, conns, wrapped, closed, pending, last,
                   probes, own, builderVars, queryVars, parseVars>>

\* The underlying connection serves the call made on it.
CallerUnderlying(p) ==
    /\ frames[p].pc = "underlying"
    /\ frames' = [frames EXCEPT ![p].pc = "returning"]
    /\ UNCHANGED <<interceptor, connector, conns, wrapped, closed, pending, last,
                   probes, own, builderVars, queryVars, parseVars>>

\* The call returns to its caller; a BeginTx that succeeded opens a transaction.
CallerReturn(p) ==
    /\ frames[p].pc = "returning"
    /\ own' = [own EXCEPT ![p].tx =
                 \/ own[p].tx
                 \/ /\ frames[p].op = "BeginTx"
                    /\ frames[p].out.outcome = "return"
                    /\ frames[p].out.err = NoError]
    /\ frames' = [frames EXCEPT ![p] = Idle]
    /\ UNCHANGED <<interceptor, connector, conns, wrapped, closed, pending, last,
                   probes, builderVars, queryVars, parseVars>>

\* tx.Commit or tx.Rollback: called on the driver.Tx the underlying connection
\* returned, which the wrapper handed on as it was.
CallerCommit(p) ==
    /\ own[p].tx
    /\ frames[p] = Idle
    /\ own' = [own EXCEPT ![p].tx = FALSE]
    /\ UNCHANGED <<interceptor, connector, conns, wrapped, closed, pending, last,
                   probes, frames, builderVars, queryVars, parseVars>>

NextCallers ==
    \/ OpenConnector
    \/ \E p \in Callers : CallerConnect(p)
    \/ \E p \in Callers : CallerWrap(p)
    \/ \E p \in Callers : CallerIssue(p)
    \/ \E p \in Callers : CallerCallback(p)
    \/ \E p \in Callers : CallerUnderlying(p)
    \/ \E p \in Callers : CallerReturn(p)
    \/ \E p \in Callers : CallerCommit(p)

SpecCallers == InitCallers /\ [][NextCallers]_vars

----------------------------------------------------------------------------
(* Builder (src/builder.go): Appendf, Query and Args over fmt.Fprintf. The  *)
(* query text is kept as the sequence of the pieces written to it.          *)

\* How many Appendf calls are made on one Builder.
MaxAppends == 2

\* The placeholder verbs.
PlaceholderVerbs == {"?", "$", "@"}

\* An item of a format string: a verb with or without the + flag, or a stretch
\* of literal text (verb "").
Verb(v) == [verb |-> v, plus |-> FALSE]
PlusVerb(v) == [verb |-> v, plus |-> TRUE]
Literal == [verb |-> "", plus |-> FALSE]

\* Argument values: an int, a string, a slice of ints.
IntValue(t) == [kind |-> "int", text |-> t, elems |-> <<>>]
StringValue(t) == [kind |-> "string", text |-> t, elems |-> <<>>]
SliceValue(es) == [kind |-> "slice", text |-> "[]int", elems |-> es]

\* A piece of the query text.
Piece(kind, text, n) == [kind |-> kind, text |-> text, n |-> n]

\* b.query with one more piece written to it.
Write(b, piece) == [b EXCEPT !.query = Append(@, piece)]

\* fmt: verb v is defined for value x (%d for integers, %s for strings, %v for
\* everything).
Suits(v, x) ==
    CASE v = "d" -> x.kind = "int"
      [] v = "s" -> x.kind = "string"
      [] v = "v" -> TRUE
      [] OTHER -> FALSE

\* fmt.Fprintf(s, fmt.FormatString(s, verb), a.value): the value as the verb
\* prints it, or fmt's note of a wrong verb, %!verb(type=value).
FormatValue(item, x) ==
    IF Suits(item.verb, x)
    THEN Piece("value", <<x.text>>, 0)
    ELSE Piece("%!", <<item.verb, "(", x.kind, "=", x.text, ")">>, 0)

\* fmt's note of a verb without an argument, %!verb(MISSING).
Missing(item) == Piece("%!", <<item.verb, "(MISSING)">>, 0)

\* fmt's note of arguments without a verb, %!(EXTRA type=value, ...).
Extra == Piece("%!", <<"(EXTRA">>, 0)

\* fmt's note of a Format method that panicked, %!verb(PANIC=Format method: msg).
FormatPanic(item, msg) == Piece("%!", <<item.verb, "(PANIC=Format method: ", msg, ")">>, 0)

\* Builder.placeholder after a placeholder verb was seen.
SeePlaceholder(placeholder, verb) ==
    LET first == IF placeholder = NoPlaceholder THEN verb ELSE placeholder
    IN  IF first # verb THEN DifferentPlaceholders ELSE first

\* argument.Format of the revision without slice arguments: the Builder after
\* argument{x, b}.Format(s, verb).
Format(b, item, x) ==
    LET seen == IF item.verb \in PlaceholderVerbs
                THEN [b EXCEPT !.args = Append(@, x),
                               !.placeholder = SeePlaceholder(@, item.verb)]
                ELSE b
    IN  CASE item.verb = "?" -> Write(seen, Piece("?", <<>>, 0))
          [] item.verb = "$" ->
                Write([seen EXCEPT !.counter = @ + 1], Piece("$", <<>>, seen.counter + 1))
          [] item.verb = "@" ->
                Write([seen EXCEPT !.counter = @ + 1], Piece("@p", <<>>, seen.counter + 1))
          [] OTHER -> Write(seen, FormatValue(item, x))

\* fmt.Fprintf(&b.query, format, a...) from item 1 of format and argument k on:
\* literal text is copied, each verb takes the next argument and calls its
\* Format method, a verb without argument and arguments without verb are noted
\* in the output.
RECURSIVE Fprintf(_, _, _, _)
Fprintf(b, format, args, k) ==
    IF format = <<>>
    THEN IF k > Len(args) THEN b
         ELSE LET RECURSIVE Rest(_, _)
                  Rest(c, j) == IF j > Len(args) THEN c
                                ELSE Rest(Format(c, Verb("v"), args[j]), j + 1)
              IN  Rest(Write(b, Extra), k)
    ELSE LET item == Head(format)
         IN  IF item.verb = ""
             THEN Fprintf(Write(b, Piece("text", <<>>, 0)), Tail(format), args, k)
             ELSE IF k > Len(args)
             THEN Fprintf(Write(b, Missing(item)), Tail(format), args, k)
             ELSE Fprintf(Format(b, item, args[k]), Tail(format), args, k + 1)

\* Appendf with a counter of its own for each call.
AppendfCountsPerCall(b, format, args) ==
    Fprintf([b EXCEPT !.counter = 0], format, args, 1)

\* Builder.Appendf
Appendf(b, format, args) == Fprintf(b, format, args, 1)

\* Query returned the text, or panicked with msg.
QueryReturned(query) == [outcome |-> "return", msg |-> <<>>, query |-> query]
QueryPanicked(msg) == [outcome |-> "panic", msg |-> msg, query |-> <<>>]

\* strings.Contains(query, "%!")
ContainsNote(query) == \E k \in 1..Len(query) : query[k].kind = "%!"

\* Query returning the text whatever it holds.
QueryUnchecked(b) == QueryReturned(b.query)

\* Builder.Query
Query(b) ==
    IF ContainsNote(b.query)
    THEN QueryPanicked(<<"queries: bad query:", b.query>>)
    ELSE IF b.placeholder = DifferentPlaceholders
    THEN QueryPanicked(<<"queries: different placeholders used">>)
    ELSE QueryReturned(b.query)

\* Builder.Args
Args(b) == b.args

\* The formats and argument lists of the Appendf calls: every placeholder verb
\* alone and twice, two different ones, %d alone and beside a placeholder, and
\* literal text; no argument, an int, a string, or both.
Formats ==
    {<<Literal>>, <<Verb("d")>>, <<Verb("?")>>, <<Verb("$")>>, <<Verb("@")>>,
     <<Verb("?"), Verb("?")>>, <<Verb("$"), Verb("$")>>, <<Verb("@"), Verb("@")>>,
     <<Verb("?"), Verb("$")>>, <<Verb("d"), Literal, Verb("$")>>}
ArgLists ==
    {<<>>, <<IntValue("42")>>, <<StringValue("foo")>>,
     <<IntValue("42"), StringValue("foo")>>}
Calls == [format : Formats, args : ArgLists]

\* qb.Appendf(format, args...)
DoAppendf ==
    /\ Len(appended) < MaxAppends
    /\ \E call \in Calls :
        /\ builder' = Appendf(builder, call.format, call.args)
        /\ appended' = Append(appended, call)
    /\ queried' = NotQueried
    /\ UNCHANGED <<interceptor, connector, conns, wrapped, closed, pending, last,
                   probes, callerVars, queryVars, parseVars>>

\* qb.Query()
DoQuery ==
    /\ queried = NotQueried
    /\ queried' = Query(builder)
    /\ UNCHANGED <<interceptor, connector, conns, wrapped, closed, pending, last,
                   probes, callerVars, builder, appended, queryVars,
                   parseVars>>

InitBuilder ==
    /\ interceptor = [Driver |-> [conn |-> UnimplementedConn, context |-> FALSE],
                      callbacks |-> {}]
    /\ Init

NextBuilder == DoAppendf \/ DoQuery

SpecBuilder == InitBuilder /\ [][NextBuilder]_vars

----------------------------------------------------------------------------
(* Builder with slice arguments (src/builder.go, the revision with the +    *)
(* flag): Format panics on a second kind of placeholder, a placeholder verb *)
(* with the + flag expands a slice, Query returns the text as it is.        *)

\* The pieces writeSlice writes beside placeholders.
Separator == Piece("text", <<", ">>, 0)
Null == Piece("text", <<"NULL">>, 0)

\* argument.writePlaceholder
writePlaceholder(b, verb) ==
    CASE verb = "?" -> Write(b, Piece("?", <<>>, 0))
      [] verb = "$" -> Write([b EXCEPT !.counter = @ + 1], Piece("$", <<>>, b.counter + 1))
      [] verb = "@" -> Write([b EXCEPT !.counter = @ + 1], Piece("@p", <<>>, b.counter + 1))

\* The loop of writeSlice from element i on.
RECURSIVE writeElements(_, _, _, _)
writeElements(b, verb, elems, i) ==
    IF i > Len(elems) THEN b
    ELSE LET sep == IF i > 1 THEN Write(b, Separator) ELSE b
             w == writePlaceholder(sep, verb)
         IN  writeElements([w EXCEPT !.args = Append(@, elems[i])], verb, elems, i + 1)

\* writeSlice passing the slice on as one argument.
writeSliceAsOneArgument(b, item, x) ==
    IF x.kind # "slice" THEN Write(b, FormatPanic(item, "non-slice argument"))
    ELSE IF Len(x.elems) = 0 THEN Write(b, Null)
    ELSE [writePlaceholder(b, item.verb) EXCEPT !.args = Append(@, x)]

\* argument.writeSlice; its panic is recovered by fmt and noted in the output.
writeSlice(b, item, x) ==
    IF x.kind # "slice" THEN Write(b, FormatPanic(item, "non-slice argument"))
    ELSE IF Len(x.elems) = 0 THEN Write(b, Null)
    ELSE writeElements(b, item.verb, x.elems, 1)

\* Format appending the argument before it looks at the placeholder, as the
\* revision without slice arguments does.
SliceFormatAppendsFirst(b, item, x) ==
    IF item.verb \in PlaceholderVerbs
    THEN LET seen == IF b.placeholder = NoPlaceholder
                     THEN [b EXCEPT !.placeholder = item.verb] ELSE b
             more == [seen EXCEPT !.args = Append(@, x)]
         IN  IF seen.placeholder # item.verb
             THEN Write(more, FormatPanic(item, "unexpected placeholder"))
             ELSE IF item.plus
             THEN writeSlice(seen, item, x)
             ELSE writePlaceholder(more, item.verb)
    ELSE Write(b, FormatValue(item, x))

\* argument.Format of the revision with slice arguments.
SliceFormat(b, item, x) ==
    IF item.verb \in PlaceholderVerbs
    THEN LET seen == IF b.placeholder = NoPlaceholder
                     THEN [b EXCEPT !.placeholder = item.verb] ELSE b
         IN  IF seen.placeholder # item.verb
             THEN Write(seen, FormatPanic(item, "unexpected placeholder"))
             ELSE IF item.plus
             THEN writeSlice(seen, item, x)
             ELSE [writePlaceholder(seen, item.verb) EXCEPT !.args = Append(@, x)]
    ELSE Write(b, FormatValue(item, x))

\* fmt.Fprintf(&b.query, format, a...) calling this revision's Format.
RECURSIVE SliceFprintf(_, _, _, _)
SliceFprintf(b, format, args, k) ==
    IF format = <<>>
    THEN IF k > Len(args) THEN b
         ELSE LET RECURSIVE Rest(_, _)
                  Rest(c, j) == IF j > Len(args) THEN c
                                ELSE Rest(SliceFormat(c, Verb("v"), args[j]), j + 1)
              IN  Rest(Write(b, Extra), k)
    ELSE LET item == Head(format)
         IN  IF item.verb = ""
             THEN SliceFprintf(Write(b, Piece("text", <<>>, 0)), Tail(format), args, k)
             ELSE IF k > Len(args)
             THEN SliceFprintf(Write(b, Missing(item)), Tail(format), args, k)
             ELSE SliceFprintf(SliceFormat(b, item, args[k]), Tail(format), args, k + 1)

\* Builder.Appendf of the revision with slice arguments.
SliceAppendf(b, format, args) == SliceFprintf(b, format, args, 1)

\* Builder.Query of the revision with slice arguments.
SliceQuery(b) == QueryReturned(b.query)

\* The formats and argument lists of the calls: a placeholder verb with the +
\* flag alone, after a plain placeholder, twice, and a plain placeholder; an
\* int, an empty slice, slices of one and of three ints.
SliceFormats ==
    {<<PlusVerb("?")>>, <<PlusVerb("$")>>, <<PlusVerb("@")>>, <<Verb("$")>>,
     <<Verb("$"), Literal, PlusVerb("$")>>, <<PlusVerb("@"), PlusVerb("@")>>}
Ints == [n \in 1..3 |-> IntValue(<<"1", "2", "3">>[n])]
SliceValues ==
    {IntValue("1"), SliceValue(<<>>), SliceValue(<<Ints[1]>>), SliceValue(Ints)}
SliceArgLists ==
    {<<x>> : x \in SliceValues}
    \cup {<<IntValue("1"), x>> : x \in SliceValues}
    \cup {<<SliceValue(Ints), SliceValue(<<>>)>>}
SliceCalls == [format : SliceFormats, args : SliceArgLists]

\* qb.Appendf(format, args...)
DoSliceAppendf ==
    /\ Len(appended) < MaxAppends
    /\ \E call \in SliceCalls :
        /\ builder' = SliceAppendf(builder, call.format, call.args)
        /\ appended' = Append(appended, call)
    /\ queried' = NotQueried
    /\ UNCHANGED <<interceptor, connector, conns, wrapped, closed, pending, last,
                   probes, callerVars, queryVars, parseVars>>

\* qb.Query()
DoSliceQuery ==
    /\ queried = NotQueried
    /\ queried' = SliceQuery(builder)
    /\ UNCHANGED <<interceptor, connector, conns, wrapped, closed, pending, last,
                   probes, callerVars, builder, appended, queryVars,
                   parseVars>>

NextSlices == DoSliceAppendf \/ DoSliceQuery

SpecSlices == InitBuilder /\ [][NextSlices]_vars

----------------------------------------------------------------------------
(* Query, QueryRow and Collect (src/unnamed/part_005). A call runs step by  *)
(* step: QueryContext, Columns, Next, scan, Err; the deferred rows.Close    *)
(* runs with the step that returns.                                         *)

\* How many rows a row set has at most, and how long a collected sequence is.
MaxRows == 2
MaxSeq == 3

\* What scanning a row comes to: a value, or an error of scan.
RowSets == UNION {[1..n -> {"ok", "errScan"}] : n \in 0..MaxRows}

\* What rows.Err() reports once Next has returned false.
RowsErrors == {NoError, "errRows"}

\* The *sql.Rows QueryContext returned: its rows and the error it ends with.
NewRows(data, err) ==
    [exists |-> TRUE, data |-> data, err |-> err, pos |-> 0, scans |-> 0,
     closes |-> 0]

\* A function leaving without the deferred call.
DeferredForgotten(r) == r

\* defer rows.Close(), run when the function returns.
Deferred(r) == [r EXCEPT !.closes = @ + 1]

\* yield(t, err): the consumer receives one more element.
Yielded(a, elem) == [a EXCEPT !.out = Append(@, elem)]

\* What the consumer's yield returns: false once it has received the element
\* it stops at.
ConsumerContinues(a) == Len(a.out) < a.stop

\* The loop going on whatever yield returned.
AfterYieldGoesOn(cont) == "Next"

\* if !yield(t, nil) { return }
AfterYield(cont) == IF cont THEN "Next" ELSE "done"

\* QueryRow answering no rows with a nil error.
NoRowsResultNil(err) == Element(0, err)

\* QueryRow when the first rows.Next() is false: the error of the row set, or
\* sql.ErrNoRows.
NoRowsResult(err) == IF err # NoError THEN Element(0, err) ELSE Element(0, ErrNoRows)

\* The call ends with err: Query yields (zero, err) and returns, QueryRow
\* returns (zero, err).
Failed(a, err) ==
    IF a.fn = "Query"
    THEN [Yielded(a, Element(0, err)) EXCEPT !.pc = "done"]
    ELSE [a EXCEPT !.pc = "done", !.res = Element(0, err)]

\* The other variables, which no step of a query function touches.
QueryFrame ==
    UNCHANGED <<interceptor, connector, conns, wrapped, closed, pending, last,
                probes, callerVars, builderVars, parseVars>>

\* The consumer ranges over Query(...) and stops at its stop-th element, or
\* QueryRow is called.
QueryStart ==
    /\ active.pc = "idle"
    /\ collect.pc = "idle"
    /\ \E fn \in {"Query", "QueryRow"} : \E stop \in 1..MaxRows + 1 :
        /\ fn = "QueryRow" => stop = 1
        /\ active' = [NoRun EXCEPT !.fn = fn, !.pc = "QueryContext", !.stop = stop]
    /\ UNCHANGED <<rows, collect>>
    /\ QueryFrame

\* rows, err := q.QueryContext(ctx, query, args...)
QueryQueryContext ==
    /\ active.pc = "QueryContext"
    /\ \E e \in {NoError, "errQuery"} : \E data \in RowSets : \E err \in RowsErrors :
        IF e # NoError
        THEN /\ active' = Failed([active EXCEPT !.queryErr = e], e)
             /\ rows' = rows
        ELSE /\ active' = [active EXCEPT !.pc = "Columns"]
             /\ rows' = NewRows(data, err)
    /\ UNCHANGED collect
    /\ QueryFrame

\* columns, err := rows.Columns()
QueryColumns ==
    /\ active.pc = "Columns"
    /\ \E e \in {NoError, "errColumns"} :
        IF e # NoError
        THEN /\ active' = Failed([active EXCEPT !.columnsErr = e], e)
             /\ rows' = Deferred(rows)
        ELSE /\ active' = [active EXCEPT !.pc = "Next"]
             /\ rows' = rows
    /\ UNCHANGED collect
    /\ QueryFrame

\* rows.Next(): the condition of the loop of Query, the test of QueryRow.
QueryNext ==
    /\ active.pc = "Next"
    /\ IF rows.pos < Len(rows.data)
       THEN /\ rows' = [rows EXCEPT !.pos = @ + 1]
            /\ active' = [active EXCEPT !.pc = "scan"]
       ELSE /\ rows' = rows
            /\ active' = [active EXCEPT !.pc = "Err"]
    /\ UNCHANGED collect
    /\ QueryFrame

\* t, err := scan[T](rows, columns) and what follows it: Query yields the error
\* and returns, or yields the value; QueryRow returns the error, or goes on to
\* rows.Err().
QueryScan ==
    /\ active.pc = "scan"
    /\ LET scanned == [rows EXCEPT !.scans = @ + 1]
       IN  IF rows.data[rows.pos] # "ok"
           THEN /\ active' = Failed(active, rows.data[rows.pos])
                /\ rows' = Deferred(scanned)
           ELSE IF active.fn = "Query"
           THEN LET y == Yielded(active, Element(rows.pos, NoError))
                    pc == AfterYield(ConsumerContinues(y))
                IN  /\ active' = [y EXCEPT !.pc = pc]
                    /\ rows' = IF pc = "done" THEN Deferred(scanned) ELSE scanned
           ELSE /\ active' = [active EXCEPT !.t = rows.pos, !.pc = "ErrAfterScan"]
                /\ rows' = scanned
    /\ UNCHANGED collect
    /\ QueryFrame

\* rows.Err() after rows.Next() returned false: Query yields the error if there
\* is one; QueryRow returns it, or sql.ErrNoRows.
QueryErr ==
    /\ active.pc = "Err"
    /\ active' = IF active.fn = "Query"
                 THEN IF rows.err # NoError THEN Failed(active, rows.err)
                      ELSE [active EXCEPT !.pc = "done"]
                 ELSE [active EXCEPT !.pc = "done", !.res = NoRowsResult(rows.err)]
    /\ rows' = Deferred(rows)
    /\ UNCHANGED collect
    /\ QueryFrame

\* rows.Err() of QueryRow after the first row was scanned: an error that came
\* up meanwhile (the context was cancelled) is returned, else the value.
QueryRowErr ==
    /\ active.pc = "ErrAfterScan"
    /\ \E e \in {NoError, "errCtx"} :
        active' = IF e # NoError
                  THEN Failed([active EXCEPT !.lateErr = e], e)
                  ELSE [active EXCEPT !.pc = "done", !.res = Element(active.t, NoError)]
    /\ rows' = Deferred(rows)
    /\ UNCHANGED collect
    /\ QueryFrame

\* The sequences Collect is given: values and errors in any order.
Seqs == UNION {[1..n -> {"ok", "anErr", "otherErr"}] : n \in 0..MaxSeq}

\* The element at position k of a sequence: slices.All style, the value is the
\* position.
SeqElement(seq, k) == Element(k, IF seq[k] = "ok" THEN NoError ELSE seq[k])

\* Collect returning what it has collected beside the error.
CollectFailedKeeps(ts, err) == [ts |-> ts, err |-> err]

\* return nil, err
CollectFailed(ts, err) == [ts |-> <<>>, err |-> err]

\* Collect(seq) is called.
CollectStart ==
    /\ collect.pc = "idle"
    /\ active.pc = "idle"
    /\ \E seq \in Seqs : collect' = [NoCollect EXCEPT !.pc = "range", !.seq = seq]
    /\ UNCHANGED <<rows, active>>
    /\ QueryFrame

\* One round of for t, err := range seq, or the return after the last.
CollectNext ==
    /\ collect.pc = "range"
    /\ IF collect.pos = Len(collect.seq)
       THEN collect' = [collect EXCEPT !.pc = "done",
                                       !.res = [ts |-> collect.ts, err |-> NoError]]
       ELSE LET elem == SeqElement(collect.seq, collect.pos + 1)
            IN  IF elem.err # NoError
                THEN collect' = [collect EXCEPT !.pc = "done", !.pos = @ + 1,
                                                !.res = CollectFailed(collect.ts, elem.err)]
                ELSE collect' = [collect EXCEPT !.pos = @ + 1,
                                                !.ts = Append(@, elem.v)]
    /\ UNCHANGED <<rows, active>>
    /\ QueryFrame

NextQuery ==
    \/ QueryStart
    \/ QueryQueryContext
    \/ QueryColumns
    \/ QueryNext
    \/ QueryScan
    \/ QueryErr
    \/ QueryRowErr
    \/ CollectStart
    \/ CollectNext

SpecQuery == InitBuilder /\ [][NextQuery]_vars

----------------------------------------------------------------------------
(* parseStruct (src/unnamed/part_005) called from several goroutines: the   *)
(* cache is a sync.Map, each Load and Store is one atomic step, the loop    *)
(* over the fields works on a map of the goroutine's own.                   *)

\* How many times a goroutine calls parseStruct.
MaxParses == 2

\* A cache with one slot for all types.
cacheStoreOneSlot(c, t, m) == [k \in TypeNames |-> m]

\* cache.Store(t, indexes)
cacheStore(c, t, m) == [c EXCEPT ![t] = m]

\* m, ok := cache.Load(t)
cacheLoad(c, t) == [m |-> c[t], ok |-> c[t] # NoEntry]

\* One round of the loop over the fields: indexes[column] = i for an exported
\* field with a non-empty sql tag; i counts from 0.
ParseField(indexes, field, i) ==
    IF ~field.exported \/ ~field.tagged \/ field.column = ""
    THEN indexes
    ELSE {e \in indexes : e[1] # field.column} \cup {<<field.column, i>>}

\* The other variables, which parseStruct does not touch.
ParseFrame ==
    UNCHANGED <<interceptor, connector, conns, wrapped, closed, pending, last,
                probes, callerVars, builderVars, queryVars>>

\* A goroutine calls parseStruct(t).
ParseCall(p) ==
    /\ parsers[p].pc = "idle"
    /\ parsers[p].calls < MaxParses
    /\ \E t \in TypeNames :
        parsers' = [parsers EXCEPT ![p].pc = "Load", ![p].t = t, ![p].calls = @ + 1]
    /\ UNCHANGED cache
    /\ ParseFrame

\* if m, ok := cache.Load(t); ok { return m }
ParseLoad(p) ==
    /\ parsers[p].pc = "Load"
    /\ LET l == cacheLoad(cache, parsers[p].t)
       IN  parsers' = IF l.ok
                      THEN [parsers EXCEPT ![p].pc = "idle", ![p].got = l.m]
                      ELSE [parsers EXCEPT ![p].pc = "fields", ![p].i = 0,
                                           ![p].indexes = {}]
    /\ UNCHANGED cache
    /\ ParseFrame

\* for i := range t.NumField() { ... }
ParseLoop(p) ==
    /\ parsers[p].pc = "fields"
    /\ LET fields == StructTypes[parsers[p].t]
           i == parsers[p].i
       IN  parsers' = IF i = Len(fields)
                      THEN [parsers EXCEPT ![p].pc = "Store"]
                      ELSE [parsers EXCEPT
                               ![p].indexes = ParseField(@, fields[i + 1], i),
                               ![p].i = i + 1]
    /\ UNCHANGED cache
    /\ ParseFrame

\* cache.Store(t, indexes); return indexes
ParseStore(p) ==
    /\ parsers[p].pc = "Store"
    /\ cache' = cacheStore(cache, parsers[p].t, parsers[p].indexes)
    /\ parsers' = [parsers EXCEPT ![p].pc = "idle", ![p].got = parsers[p].indexes]
    /\ ParseFrame

NextParse ==
    \/ \E p \in Parsers : ParseCall(p)
    \/ \E p \in Parsers : ParseLoad(p)
    \/ \E p \in Parsers : ParseLoop(p)
    \/ \E p \in Parsers : ParseStore(p)

SpecParse == InitBuilder /\ [][NextParse]_vars

----------------------------------------------------------------------------
(* What the properties below speak about.                                   *)

\* The optional interface an operation of the wrapped connection stands for.
OpInterface(op) ==
    CASE op = "Ping" -> Pinger
      [] op = "ExecContext" -> ExecerContext
      [] op = "QueryContext" -> QueryerContext
      [] op = "PrepareContext" -> ConnPrepareContext
      [] op = "BeginTx" -> ConnBeginTx
      [] op = "ResetSession" -> SessionResetter
      [] op = "IsValid" -> Validator
      [] op = "CheckNamedValue" -> NamedValueChecker

\* The underlying connection the wrapped connection w forwards to.
UnderlyingOf(w) == Receiver(wrapped[w], "Close").Conn

\* The last operation was op, invoked on a wrapped connection.
LastWas(op) == last.op = op /\ last.w \in 1..Len(wrapped)

\* The last operation was one of the four with a callback.
LastWasCallbackOp == last.op \in CallbackNames /\ last.w \in 1..Len(wrapped)

\* The underlying connection of the last operation implements its interface.
LastSupported == OpInterface(last.op) \in ConnType(UnderlyingOf(last.w))

\* A callback is registered for the last operation.
LastRegistered == last.op \in interceptor.callbacks

----------------------------------------------------------------------------
(* Properties.                                                              *)

\* C1: the value Connect returns implements SessionResetter, Validator and
\* NamedValueChecker exactly when the underlying connection it wraps does, for
\* each of the 8 combinations.
C1_FacetsMatch ==
    \A w \in 1..Len(wrapped) :
        \A f \in FacetInterfaces :
            f \in ExposedOf[wrapped[w].type] <=> f \in ConnType(UnderlyingOf(w))

\* A connection with SessionResetter and NamedValueChecker but no Validator was
\* wrapped, and the wrapper exposes just those two facets.
C1_Witness ==
    \E w \in 1..Len(wrapped) :
        /\ ConnType(UnderlyingOf(w)) \cap FacetInterfaces
             = {SessionResetter, NamedValueChecker}
        /\ ExposedOf[wrapped[w].type] \cap FacetInterfaces
             = {SessionResetter, NamedValueChecker}

\* C2: a supported operation with a registered callback invokes that callback
\* exactly once, with the caller's context and arguments and a delegate bound
\* to the wrapper's own underlying connection; when the callback calls the
\* delegate and returns its result, the wrapper returns what the underlying
\* connection returned.
C2_CallbackOnce ==
    (LastWasCallbackOp /\ LastSupported /\ LastRegistered) =>
        /\ last.out.outcome = "return"
        /\ Len(last.out.cb) = 1
        /\ last.out.cb[1].name = last.op
        /\ last.out.cb[1].ctx = last.ctx
        /\ last.out.cb[1].query = last.query
        /\ last.out.cb[1].args = last.args
        /\ last.out.cb[1].delegate = UnderlyingOf(last.w)
        /\ last.out.cb[1].mode = "delegate" =>
              /\ Len(last.out.under) = 1
              /\ last.out.under[1].conn = UnderlyingOf(last.w)
              /\ last.out.under[1].method = last.op
              /\ last.out.res = last.out.under[1].ret.res
              /\ last.out.err = last.out.under[1].ret.err

\* ExecContext ran on the second connection through a delegating callback that
\* got the second input and returned the connection's error.
C2_Witness ==
    /\ LastWas("ExecContext")
    /\ last.w = 2
    /\ last.ctx = "ctx2"
    /\ Len(last.out.cb) = 1
    /\ last.out.cb[1].mode = "delegate"
    /\ last.out.cb[1].ctx = "ctx2"
    /\ last.out.err = "errCalled"

C5_FallbackPrepares ==
    [][ /\ (last'.op \in {"ExecContext", "QueryContext"}
             /\ last'.out.outcome = "return" /\ last'.out.err = ErrSkip)
           => /\ pending' = [w |-> last'.w, ctx |-> last'.ctx, query |-> last'.query]
              /\ Len(last'.out.under) <= 1
        /\ pending # NoPending
           => /\ last'.op = "PrepareContext"
              /\ last'.fallback
              /\ last'.w = pending.w
              /\ last'.query = pending.query
              /\ ("PrepareContext" \in interceptor.callbacks
                   /\ ConnPrepareContext \in ConnType(UnderlyingOf(pending.w)))
                 => /\ Len(last'.out.cb) = 1
                    /\ last'.out.cb[1].name = "PrepareContext"
                    /\ last'.out.cb[1].query = pending.query
      ]_vars

\* The fallback prepare ran and went through the PrepareContext callback.
C5_Witness ==
    /\ LastWas("PrepareContext")
    /\ last.fallback
    /\ Len(last.out.cb) = 1
    /\ last.out.cb[1].name = "PrepareContext"

\* C6: PrepareContext (BeginTx) on a connection that is no ConnPrepareContext
\* (ConnBeginTx) panics with the message naming the missing interface, which is
\* not the driver.ErrSkip return of a missing exec or query.
C6_HardFailure ==
    ((LastWas("PrepareContext") \/ LastWas("BeginTx")) /\ ~LastSupported) =>
        /\ last.out.outcome = "panic"
        /\ last.out.panic =
             <<"queries: driver does not implement", OpInterface(last.op)>>
        /\ last.out.err # ErrSkip
        /\ last.out.cb = <<>>
        /\ last.out.under = <<>>

\* BeginTx panicked on a connection that is no ConnBeginTx, its callback set.
C6_Witness ==
    /\ LastWas("BeginTx")
    /\ ~LastSupported
    /\ LastRegistered
    /\ last.out.panic = <<"queries: driver does not implement", ConnBeginTx>>

\* C7 as stated: a wrapped connection exposes Ping, ExecContext, QueryContext,
\* PrepareContext and BeginTx exactly when the underlying connection implements
\* the interface.
C7_ExposedIffImplemented ==
    \A w \in 1..Len(wrapped) :
        \A i \in OpInterfaces :
            i \in ExposedOf[wrapped[w].type] <=> i \in ConnType(UnderlyingOf(w))

\* C7, amended: every wrapped connection exposes all five operations whatever
\* the underlying connection implements, and Ping on a connection that is no
\* Pinger panics with the message naming driver.Pinger.
C7_AlwaysExposed ==
    /\ \A w \in 1..Len(wrapped) : OpInterfaces \subseteq ExposedOf[wrapped[w].type]
    /\ (LastWas("Ping") /\ ~LastSupported) =>
          /\ last.out.outcome = "panic"
          /\ last.out.panic = <<"queries: driver does not implement", Pinger>>
          /\ last.out.under = <<>>

\* Ping was invoked on a wrapper of a connection that is no Pinger.
C7_Witness ==
    /\ LastWas("Ping")
    /\ Pinger \notin ConnType(UnderlyingOf(last.w))
    /\ Pinger \in ExposedOf[wrapped[last.w].type]
    /\ last.out.outcome = "panic"

\* C8: when the callback returns without calling its delegate, the underlying
\* connection is not called and the wrapper returns exactly the pair the
\* callback returned.
C8_ShortCircuit ==
    (LastWasCallbackOp /\ Len(last.out.cb) = 1
       /\ last.out.cb[1].mode = "shortcircuit") =>
        /\ last.out.outcome = "return"
        /\ last.out.under = <<>>
        /\ last.out.res = last.out.cb[1].ret.res
        /\ last.out.err = last.out.cb[1].ret.err

\* A QueryContext callback returned its own error without calling the delegate.
C8_Witness ==
    /\ LastWas("QueryContext")
    /\ Len(last.out.cb) = 1
    /\ last.out.cb[1].mode = "shortcircuit"
    /\ last.out.err = "cberr"
    /\ last.out.under = <<>>

\* C9: when the underlying connector's Connect fails, the wrapped connector's
\* Connect returns that error and no connection, has called the underlying
\* Connect exactly once, and no wrapped connection exists that was not obtained.
C9_ConnectError ==
    /\ Len(wrapped) = Len(conns)
    /\ (last.op = "Connect"
         /\ \E k \in 1..Len(last.out.under) : last.out.under[k].ret.err # NoError) =>
          /\ Len(last.out.under) = 1
          /\ last.out.err = last.out.under[1].ret.err
          /\ last.out.res = NoValue

\* The second Connect failed with errRefused after a first one succeeded.
C9_Witness ==
    /\ last.op = "Connect"
    /\ last.out.err = "errRefused"
    /\ Len(wrapped) = 1

\* C10: a successful Connect has called the underlying Connect exactly once and
\* returned a wrapper, every part of which is bound to the connection just
\* obtained and whose facets are those of that connection; it is none of the
\* wrappers returned before.
C10_FreshWrapper ==
    (last.op = "Connect" /\ last.out.err = NoError) =>
        /\ Len(last.out.under) = 1
        /\ last.out.res = "conn"
        /\ wrapped # <<>>
        /\ LET v == wrapped[Len(wrapped)]
               got == last.out.under[1].ret
           IN  /\ \A f \in DOMAIN v.fields : v.fields[f].Conn = got.conn
               /\ ExposedOf[v.type] \cap FacetInterfaces
                    = got.type \cap FacetInterfaces
               /\ \A k \in 1..(Len(wrapped) - 1) : wrapped[k] # v

\* A second Connect succeeded and returned a wrapper of the second connection.
C10_Witness ==
    /\ last.op = "Connect"
    /\ last.out.err = NoError
    /\ Len(wrapped) = 2
    /\ UnderlyingOf(2) = 2
    /\ UnderlyingOf(1) = 1

\* C11: OpenConnector(name) on a driver that is a driver.DriverContext calls the
\* driver's OpenConnector with that name once and wraps the connector it
\* returns, or returns its error unchanged and no connector; on any other driver
\* it wraps a dsnConnector, whose Connect calls the driver's Open with exactly
\* that name. The connector carries the Interceptor it was opened from.
C11_OpenConnector ==
    /\ connector.opened => connector.interceptor = interceptor
    /\ last.op = "OpenConnector" =>
          IF interceptor.Driver.context
          THEN /\ Len(last.out.under) = 1
               /\ last.out.under[1].method = "OpenConnector"
               /\ last.out.under[1].query = last.query
               /\ IF last.out.under[1].ret.err # NoError
                  THEN /\ last.out.err = last.out.under[1].ret.err
                       /\ last.out.res = NoValue
                       /\ connector = NoConnector
                  ELSE /\ last.out.err = NoError
                       /\ connector.opened
                       /\ connector.Connector = last.out.under[1].ret.c
          ELSE /\ last.out.under = <<>>
               /\ last.out.err = NoError
               /\ connector.opened
               /\ connector.Connector.kind = "dsnConnector"
               /\ connector.Connector.dsn = last.query
               /\ connector.Connector.driver = interceptor.Driver
    /\ (last.op = "Connect" /\ ~interceptor.Driver.context) =>
          /\ Len(last.out.under) = 1
          /\ last.out.under[1].ret.open = <<connector.Connector.dsn>>

\* A connection was obtained through the dsnConnector of a driver that is no
\* driver.DriverContext, Open having been called with the name "dsn".
C11_Witness ==
    /\ last.op = "Connect"
    /\ ~interceptor.Driver.context
    /\ connector.Connector.kind = "dsnConnector"
    /\ Len(last.out.under) = 1
    /\ last.out.under[1].ret.open = <<"dsn">>
    /\ last.out.err = NoError

\* C12: db.Driver() of a handle opened through the Interceptor is the driver the
\* Interceptor wraps, and not the Interceptor.
C12_DriverIsUnderlying ==
    last.op = "Driver" =>
        /\ last.out.outcome = "return"
        /\ last.out.res = interceptor.Driver
        /\ last.out.res # interceptor

\* db.Driver() was asked on a handle whose connector is a wrapped dsnConnector.
C12_Witness ==
    /\ last.op = "Driver"
    /\ connector.Connector.kind = "dsnConnector"
    /\ last.out.res = [conn |-> UnimplementedConn, context |-> FALSE]

\* The operations of a wrapped connection that make a type assertion.
AssertingOps == {InterfaceMethod(i) : i \in OptionalInterfaces}

\* C14 as stated: the capabilities of a connection are type-queried during the
\* Connect that wraps it, operations are invoked only on wrappers Connect has
\* returned, and no operation on a wrapper type-queries the underlying
\* connection again.
C14_ProbedOnce ==
    /\ (last.op = "Connect" /\ last.out.err = NoError) =>
          /\ probes # {}
          /\ \A q \in probes : q.conn = Len(conns)
    /\ last.op \in AssertingOps \cup {"Close"} =>
          /\ last.w \in 1..Len(wrapped)
          /\ probes = {}

\* C14, amended: Connect type-queries exactly the three facets, on the
\* connection it just obtained, before the wrapper exists; operations are
\* invoked only on wrappers Connect has returned, and each of them type-queries
\* the underlying connection of its wrapper for its own interface on every
\* invocation; Close and the connector's methods query nothing.
C14_ProbedAtConnectAndPerCall ==
    /\ last.op = "Connect" =>
          probes = IF last.out.err = NoError
                   THEN {[conn |-> Len(conns), iface |-> f] : f \in FacetInterfaces}
                   ELSE {}
    /\ last.op \in AssertingOps =>
          /\ last.w \in 1..Len(wrapped)
          /\ probes = {[conn |-> UnderlyingOf(last.w), iface |-> OpInterface(last.op)]}
    /\ last.op \in {"none", "OpenConnector", "Driver", "Close"} => probes = {}
    /\ \A w \in 1..Len(wrapped) :
          ExposedOf[wrapped[w].type] \cap FacetInterfaces
            = ConnType(UnderlyingOf(w)) \cap FacetInterfaces

\* ExecContext on the first wrapper asserted driver.ExecerContext on the
\* underlying connection after a second connection had been wrapped.
C14_Witness ==
    /\ LastWas("ExecContext")
    /\ last.w = 1
    /\ Len(wrapped) = 2
    /\ probes = {[conn |-> 1, iface |-> ExecerContext]}

\* The interfaces the connections of the wrapped driver lack among the two
\* without a fallback.
MissingHard == {ConnPrepareContext, ConnBeginTx} \ interceptor.Driver.conn

\* C15: with a driver whose connections lack ConnPrepareContext or ConnBeginTx,
\* OpenConnector and Connect succeed (they add no failure of their own), and
\* the panic naming the missing interface is raised by exactly the operations
\* that need it, PrepareContext or BeginTx, on every invocation, the first
\* included.
C15_FailsOnFirstUse ==
    MissingHard # {} =>
        /\ (last.op = "OpenConnector" /\ ~interceptor.Driver.context) =>
              /\ last.out.outcome = "return"
              /\ last.out.err = NoError
              /\ connector.opened
        /\ last.op = "Connect" =>
              /\ last.out.outcome = "return"
              /\ Len(last.out.under) = 1
              /\ last.out.err = last.out.under[1].ret.err
        /\ (last.out.outcome = "panic"
             /\ last.out.panic \in {NotImplemented(i) : i \in MissingHard})
           <=> (last.op \in {"PrepareContext", "BeginTx"}
                /\ OpInterface(last.op) \in MissingHard)

\* After OpenConnector and Connect succeeded on a driver with bare connections,
\* the PrepareContext of the fallback of an exec or query panicked.
C15_Witness ==
    /\ interceptor.Driver.conn = UnimplementedConn
    /\ connector.opened
    /\ LastWas("PrepareContext")
    /\ last.fallback
    /\ last.out.outcome = "panic"
    /\ last.out.panic = NotImplemented(ConnPrepareContext)

\* C16: the ExecContext (QueryContext) callback is invoked only on connections
\* that implement driver.ExecerContext (driver.QueryerContext); on any other
\* connection an exec or query invokes no callback and leaves the host to
\* prepare, and that prepare invokes no callback but PrepareContext.
C16_CallbackNeverCalled ==
    /\ last.op \in AssertingOps =>
          \A k \in 1..Len(last.out.cb) :
              last.out.cb[k].name \in {"ExecContext", "QueryContext"} =>
                  OpInterface(last.out.cb[k].name) \in ConnType(UnderlyingOf(last.w))
    /\ (last.op \in {"ExecContext", "QueryContext"} /\ ~LastSupported) =>
          /\ last.out.cb = <<>>
          /\ pending # NoPending
          /\ pending.w = last.w
    /\ (last.op = "PrepareContext" /\ last.fallback) =>
          \A k \in 1..Len(last.out.cb) : last.out.cb[k].name = "PrepareContext"

\* With all callbacks registered on a connection that can only prepare, the
\* prepare of a fallback went through the PrepareContext callback.
C16_Witness ==
    /\ interceptor.Driver.conn = PreparingConn
    /\ {"ExecContext", "QueryContext", "PrepareContext"} \subseteq interceptor.callbacks
    /\ LastWas("PrepareContext")
    /\ last.fallback
    /\ Len(last.out.cb) = 1
    /\ last.out.cb[1].name = "PrepareContext"
    /\ last.out.cb[1].delegate = UnderlyingOf(last.w)

\* The callers that have a call inside a method of their wrapper.
InFlight == {p \in Callers : frames[p].pc \in {"callback", "underlying", "returning"}}

\* C13: whatever the interleaving of two callers, the wrapper a caller got
\* from Connect is bound to the connection that call of Connect obtained and to
\* no other caller's; every callback invocation of a call in flight carries the
\* context, query and arguments its caller passed and a delegate bound to the
\* caller's connection; every underlying call is made on that connection with
\* those inputs; and what the call returns to its caller is what its own
\* callback, or else its own underlying call, returned.
C13_NoCrossTalk ==
    /\ \A p \in Callers :
          own[p].w # 0 =>
              /\ \A f \in DOMAIN wrapped[own[p].w].fields :
                     wrapped[own[p].w].fields[f].Conn = own[p].conn
              /\ \A q \in Callers \ {p} :
                     own[q].w # 0 => /\ own[q].w # own[p].w
                                     /\ own[q].conn # own[p].conn
    /\ \A p \in InFlight :
          LET f == frames[p]
          IN  /\ f.in = OpInput(f.op, CallerInput(p))
              /\ \A k \in 1..Len(f.out.cb) :
                     /\ f.out.cb[k].name = f.op
                     /\ f.out.cb[k].ctx = f.in.ctx
                     /\ f.out.cb[k].query = f.in.query
                     /\ f.out.cb[k].args = f.in.args
                     /\ f.out.cb[k].delegate = own[p].conn
              /\ \A k \in 1..Len(f.out.under) :
                     /\ f.out.under[k].method = f.op
                     /\ f.out.under[k].conn = own[p].conn
                     /\ f.out.under[k].ctx = f.in.ctx
                     /\ f.out.under[k].query = f.in.query
                     /\ f.out.under[k].args = f.in.args
              /\ (f.out.outcome = "return" /\ f.out.cb # <<>>) =>
                     /\ f.out.res = f.out.cb[1].ret.res
                     /\ f.out.err = f.out.cb[1].ret.err
              /\ (f.out.outcome = "return" /\ f.out.cb = <<>> /\ f.out.under # <<>>) =>
                     /\ f.out.res = f.out.under[1].ret.res
                     /\ f.out.err = f.out.under[1].ret.err

\* The two callers obtained their connections in one order and their wrappers
\* in the other, and both have a call in flight: one inside the underlying
\* connection, the other inside its callback.
C13_Witness ==
    /\ own[1].w = 2
    /\ own[2].w = 1
    /\ own[1].conn = 1
    /\ frames[1].pc = "underlying"
    /\ frames[2].pc = "callback"
    /\ frames[1].op = "QueryContext"
    /\ frames[2].op = "ExecContext"

VerbsOf(format) == SelectSeq(format, LAMBDA item : item.verb # "")

\* The arguments that stand against a placeholder verb, in order.
RECURSIVE PlaceholderArgs(_, _)
PlaceholderArgs(verbs, args) ==
    IF verbs = <<>> \/ args = <<>> THEN <<>>
    ELSE (IF Head(verbs).verb \in PlaceholderVerbs THEN <<Head(args)>> ELSE <<>>)
         \o PlaceholderArgs(Tail(verbs), Tail(args))

\* The placeholder arguments of a sequence of Appendf calls, in order.
RECURSIVE ExpectedArgs(_)
ExpectedArgs(calls) ==
    IF calls = <<>> THEN <<>>
    ELSE PlaceholderArgs(VerbsOf(Head(calls).format), Head(calls).args)
         \o ExpectedArgs(Tail(calls))

\* The placeholder verbs the calls used.
UsedVerbs(calls) ==
    {v \in PlaceholderVerbs :
        \E c \in 1..Len(calls) : \E j \in 1..Len(calls[c].format) :
            calls[c].format[j].verb = v}

\* The placeholders of a query text, in order.
Placeholders(query) == SelectSeq(query, LAMBDA p : p.kind \in {"?", "$", "@p"})

\* The k-th placeholder as the claim writes it: ?, $k, @pk.
Written(verb, k) ==
    CASE verb = "?" -> Piece("?", <<>>, 0)
      [] verb = "$" -> Piece("$", <<>>, k)
      [] verb = "@" -> Piece("@p", <<>>, k)

\* How many arguments the calls passed.
RECURSIVE ArgCount(_)
ArgCount(calls) ==
    IF calls = <<>> THEN 0 ELSE Len(Head(calls).args) + ArgCount(Tail(calls))

\* The pieces of a query text that print an argument: its value, or fmt's note
\* of a wrong verb.
Printed(query) ==
    SelectSeq(query, LAMBDA p : \/ p.kind = "value"
                                \/ p.kind = "%!" /\ Len(p.text) = 6)

\* C18: when the Appendf calls on a Builder use one placeholder verb, the k-th
\* placeholder of Query() is ? for %?, $k for %$ and @pk for %@, numbered from 1
\* across the calls; Args() holds the arguments of the placeholder verbs in the
\* order of their placeholders, one for each; every other argument is printed
\* into the text and is not in Args().
C18_PlaceholdersNumbered ==
    \A v \in PlaceholderVerbs :
        UsedVerbs(appended) \subseteq {v} =>
            LET ph == Placeholders(builder.query)
            IN  /\ \A k \in 1..Len(ph) : ph[k] = Written(v, k)
                /\ Args(builder) = ExpectedArgs(appended)
                /\ Len(ph) = Len(Args(builder))
                /\ Len(Printed(builder.query))
                     = ArgCount(appended) - Len(ExpectedArgs(appended))

\* Two Appendf calls with %$ wrote $1, $2 and then, after a %d, $3, and Args()
\* holds the three placeholder arguments in that order.
C18_Witness ==
    /\ Len(appended) = 2
    /\ appended[2].format = <<Verb("d"), Literal, Verb("$")>>
    /\ Placeholders(builder.query)
         = <<Piece("$", <<>>, 1), Piece("$", <<>>, 2), Piece("$", <<>>, 3)>>
    /\ Args(builder) = <<IntValue("42"), StringValue("foo"), StringValue("foo")>>
    /\ queried.outcome = "return"

\* A call has a formatting error: too few or too many arguments, or a verb that
\* is not defined for its argument.
FormatError(call) ==
    LET verbs == VerbsOf(call.format)
    IN  \/ Len(verbs) # Len(call.args)
        \/ \E j \in 1..Len(verbs) :
              /\ verbs[j].verb \notin PlaceholderVerbs
              /\ ~(verbs[j].verb = "d" /\ call.args[j].kind = "int")

\* The calls made the Builder invalid.
Invalid(calls) ==
    \/ \E c \in 1..Len(calls) : FormatError(calls[c])
    \/ Cardinality(UsedVerbs(calls)) > 1

Added == SubSeq(builder'.query, Len(builder.query) + 1, Len(builder'.query))

ForwardedOps == {"Ping", "ResetSession", "IsValid", "CheckNamedValue"}

\* The last operation called its own method of its own underlying connection
\* once, with what it was passed, returned what that returned, and invoked no
\* callback.
LastForwarded ==
    /\ last.out.outcome = "return"
    /\ last.out.cb = <<>>
    /\ Len(last.out.under) = 1
    /\ last.out.under[1].conn = UnderlyingOf(last.w)
    /\ last.out.under[1].method = last.op
    /\ last.out.under[1].ctx = last.ctx
    /\ last.out.under[1].args = last.args
    /\ last.out.res = last.out.under[1].ret.res
    /\ last.out.err = last.out.under[1].ret.err

\* C26 as stated: Ping, ResetSession, IsValid and CheckNamedValue on a wrapped
\* connection that exposes them forward once to the same underlying connection,
\* unmodified and without a callback.
C26_ExposedForwards ==
    (last.op \in ForwardedOps /\ last.w \in 1..Len(wrapped)
        /\ OpInterface(last.op) \in ExposedOf[wrapped[last.w].type])
    => LastForwarded

\* C26, amended: the same for a wrapped connection whose underlying connection
\* implements the interface, in each of the wrapper variants; Ping, exposed on
\* every wrapped connection, panics when the underlying connection is no
\* driver.Pinger and calls nothing.
C26_ImplementedForwards ==
    (last.op \in ForwardedOps /\ last.w \in 1..Len(wrapped))
    => /\ OpInterface(last.op) \in ExposedOf[wrapped[last.w].type]
       /\ IF LastSupported THEN LastForwarded
          ELSE /\ last.op = "Ping"
               /\ last.out = Panicked(NotImplemented(Pinger))

\* CheckNamedValue on the composite of SessionResetter and NamedValueChecker
\* returned the error of the underlying checker.
C26_Witness ==
    /\ LastWas("CheckNamedValue")
    /\ wrapped[last.w].type = StructSN
    /\ LastForwarded
    /\ last.out.err = "errCalled"

\* C27: the host never invokes Interceptor.Open: sql.Open enters through
\* OpenConnector, and no operation that follows goes back to Open.
C27_OpenNeverInvoked == last.op # "Open"

\* The host opened the Interceptor by name through OpenConnector, connected and
\* operated on the connection.
C27_Witness ==
    /\ connector.opened
    /\ connector.Connector.kind = "dsnConnector"
    /\ Len(wrapped) = MaxConns
    /\ LastWas("Close")

\* C30: no step changes the Interceptor (its driver and its callbacks), the
\* wrapped connector once it is opened, any wrapped connection that exists (its
\* variant, hence its capability set, and the connection it wraps) or the
\* dynamic type of any underlying connection; the connector and every wrapped
\* connection carry the very Interceptor that was registered.
C30_Immutable ==
    [][ /\ interceptor' = interceptor
        /\ connector.opened => connector' = connector
        /\ connector'.opened => connector'.interceptor = interceptor
        /\ Len(wrapped') >= Len(wrapped)
        /\ \A w \in 1..Len(wrapped) :
              /\ wrapped'[w] = wrapped[w]
              /\ ExposedOf[wrapped'[w].type] = ExposedOf[wrapped[w].type]
        /\ \A w \in 1..Len(wrapped') : \A f \in DOMAIN wrapped'[w].fields :
              wrapped'[w].fields[f].interceptor = interceptor
        /\ \A id \in 1..Len(conns) : conns'[id] = conns[id]
      ]_vars

\* With callbacks registered, a second connection was wrapped and closed after
\* an operation on the first, and the first is what Connect returned.
C30_Witness ==
    /\ interceptor.callbacks = CallbackNames
    /\ Len(wrapped) = MaxConns
    /\ LastWas("Close")
    /\ last.w = MaxConns
    /\ connector.interceptor = interceptor
    /\ \A w \in 1..Len(wrapped) :
          wrapped[w] = WrapConn(UnderlyingOf(w), ConnType(UnderlyingOf(w)), interceptor)

\* The numbered placeholders of a query text, in order.
Numbered(query) == SelectSeq(query, LAMBDA p : p.kind \in {"$", "@p"})

\* C28: after any Appendf calls, Args() has as many arguments as the query text
\* has placeholders, the counter is the number of $N and @pN placeholders
\* written, and these carry the numbers 1, 2, ... in order, none skipped or
\* repeated.
C28_ArgsMatchPlaceholders ==
    /\ Len(Args(builder)) = Len(Placeholders(builder.query))
    /\ builder.counter = Len(Numbered(builder.query))
    /\ \A k \in 1..Len(Numbered(builder.query)) : Numbered(builder.query)[k].n = k

\* Four numbered placeholders and four arguments, written by a plain verb and a
\* slice of three, and kept through a later call that failed.
C28_Witness ==
    /\ Len(appended) = 2
    /\ builder.counter = 4
    /\ Len(Args(builder)) = 4
    /\ ContainsNote(builder.query)
    /\ ~ContainsNote(SubSeq(builder.query, 1, 6))

\* The error of the query or of the column lookup, if the call met one.
EarlyError ==
    IF active.queryErr # NoError THEN active.queryErr ELSE active.columnsErr

\* C21: QueryRow returns (zero, sql.ErrNoRows) when the row set has no row and
\* reports no error; with a row it returns the scan of the first row and scans
\* no other; an error of the query, of the column lookup, of the scan or of the
\* row set comes back as it is, beside the zero T.
C21_QueryRow ==
    (active.fn = "QueryRow" /\ active.pc = "done") =>
        /\ rows.scans <= 1
        /\ rows.pos <= 1
        /\ active.res =
             IF EarlyError # NoError THEN Element(0, EarlyError)
             ELSE IF rows.data = <<>>
             THEN IF rows.err # NoError THEN Element(0, rows.err)
                  ELSE Element(0, ErrNoRows)
             ELSE IF rows.data[1] # "ok" THEN Element(0, rows.data[1])
             ELSE IF active.lateErr # NoError THEN Element(0, active.lateErr)
             ELSE Element(1, NoError)

\* QueryRow returned the first of two rows and left the second unread.
C21_Witness ==
    /\ active.fn = "QueryRow"
    /\ active.pc = "done"
    /\ Len(rows.data) = 2
    /\ active.res = Element(1, NoError)
    /\ rows.pos = 1

\* C22: when a call of Query or QueryRow has ended, the row set it obtained is
\* closed, however the call ended; a call whose query failed obtained no row
\* set and closed nothing; nothing is closed while the call still reads.
C22_RowsClosed ==
    /\ (active.pc = "done" /\ rows.exists) => rows.closes = 1
    /\ ~rows.exists => (rows.closes = 0 /\ active.pc \in {"idle", "QueryContext", "done"})
    /\ (active.pc = "done" /\ ~rows.exists) => active.queryErr # NoError
    /\ active.pc # "done" => rows.closes = 0

\* Query ended on a scan error in the second row and the row set was closed.
C22_Witness ==
    /\ active.fn = "Query"
    /\ active.pc = "done"
    /\ rows.exists
    /\ rows.pos = 2
    /\ rows.data[2] = "errScan"
    /\ rows.closes = 1

\* What Query yields to a consumer that never stops: the rows in order up to
\* the first error of scan, that error, or the error of the row set at the end.
RECURSIVE AllYields(_, _, _)
AllYields(data, err, k) ==
    IF k > Len(data) THEN (IF err # NoError THEN <<Element(0, err)>> ELSE <<>>)
    ELSE IF data[k] # "ok" THEN <<Element(0, data[k])>>
    ELSE <<Element(k, NoError)>> \o AllYields(data, err, k + 1)

\* What Query yields to the consumer of the call in progress.
ExpectedYields ==
    IF EarlyError # NoError THEN <<Element(0, EarlyError)>>
    ELSE IF ~rows.exists THEN <<>>
    ELSE LET all == AllYields(rows.data, rows.err, 1)
         IN  SubSeq(all, 1, IF Len(all) < active.stop THEN Len(all) ELSE active.stop)

\* C23: Query yields the rows in order as (value, nil); the first error is
\* yielded once as (zero, error) and is the last element; nothing is yielded
\* after the consumer's yield returned false.
C23_Yields ==
    active.fn = "Query" =>
        /\ \A k \in 1..Len(active.out) :
              \/ active.out[k] = Element(k, NoError)
              \/ /\ k = Len(active.out)
                 /\ active.out[k].v = 0
                 /\ active.out[k].err # NoError
        /\ Len(active.out) <= active.stop
        /\ active.out = SubSeq(ExpectedYields, 1, Len(active.out))
        /\ active.pc = "done" => active.out = ExpectedYields
        /\ (Len(active.out) > 0 /\ active.out[Len(active.out)].err # NoError)
              => active.pc = "done"

\* The consumer stopped at the first of two rows and received nothing more.
C23_Witness ==
    /\ active.fn = "Query"
    /\ active.pc = "done"
    /\ active.stop = 1
    /\ rows.data = <<"ok", "ok">>
    /\ active.out = <<Element(1, NoError)>>

\* The positions of a sequence that carry an error.
ErrorsOf(seq) == {k \in 1..Len(seq) : seq[k] # "ok"}

\* The least number of a non-empty set of numbers.
Least(S) == CHOOSE k \in S : \A j \in S : k <= j

\* C24: Collect returns all values in order and a nil error when no element
\* carries an error; otherwise it returns a nil slice and the first error, and
\* has consumed the sequence up to that element and no further.
C24_Collect ==
    collect.pc = "done" =>
        IF ErrorsOf(collect.seq) = {}
        THEN /\ collect.res = [ts |-> [k \in 1..Len(collect.seq) |-> k], err |-> NoError]
             /\ collect.pos = Len(collect.seq)
        ELSE /\ collect.res = [ts |-> <<>>,
                                err |-> collect.seq[Least(ErrorsOf(collect.seq))]]
             /\ collect.pos = Least(ErrorsOf(collect.seq))

\* Collect met an error in the second of three elements, returned it with a nil
\* slice and did not consume the third, another error.
C24_Witness ==
    /\ collect.pc = "done"
    /\ collect.seq = <<"ok", "anErr", "otherErr">>
    /\ collect.res = [ts |-> <<>>, err |-> "anErr"]
    /\ collect.pos = 2

\* The map a single parse of a struct type yields, said without the loop: each
\* column named by an exported field with a non-empty sql tag, with the index
\* of the last such field.
Uncached(fields) ==
    LET named(i) == fields[i].exported /\ fields[i].tagged /\ fields[i].column # ""
    IN  {<<fields[i].column, i - 1>> :
            i \in {i \in 1..Len(fields) :
                      /\ named(i)
                      /\ ~\E j \in i + 1..Len(fields) :
                            named(j) /\ fields[j].column = fields[i].column}}

\* C29: in every interleaving of parseStruct calls, each call returns the map
\* a single uncached parse of its type yields, a stored cache entry is that
\* map, and an entry once stored stays stored.
C29_ParseStruct ==
    [][ /\ \A p \in Parsers :
              (parsers'[p].pc = "idle" /\ parsers'[p].calls > 0)
              => parsers'[p].got = Uncached(StructTypes[parsers'[p].t])
        /\ \A t \in TypeNames :
              /\ cache'[t] # NoEntry => cache'[t] = Uncached(StructTypes[t])
              /\ cache[t] # NoEntry => cache'[t] = cache[t]
      ]_vars

\* Both goroutines missed the cache for the same type; one has stored and
\* returned, the other has parsed and is about to store again.
C29_Witness ==
    /\ parsers[1].pc = "Store"
    /\ parsers[1].t = "dto"
    /\ parsers[2].pc = "idle"
    /\ parsers[2].t = "dto"
    /\ parsers[2].calls = 1
    /\ parsers[2].got = {<<"id", 0>>, <<"name", 1>>}
    /\ cache["dto"] = parsers[2].got

====
